---------------------------- MODULE Spec2Model ----------------------------
(***************************************************************************)
(* Model of the wealth-forecast pipeline:                                  *)
(*   - fetchAssumptionsWithSearch (src/lib/gemini/service.ts): parsing,    *)
(*     validation and normalisation of one provider response;              *)
(*   - projectScenario / annualContribution / buildForecast                *)
(*     (src/lib/forecast/calculator.ts): the yearly compounding loop and   *)
(*     the per-investment and total projections;                           *)
(*   - the repository (src/lib/firebase/repository.ts): the documents of   *)
(*     the portfolios and wealthForecasts collections and the writes made  *)
(*     to them;                                                            *)
(*   - the POST /api/forecast handler (src/app/api/forecast/route.ts):     *)
(*     credential check, validation, one research call per investment,     *)
(*     calculation, the two writes, the response.                          *)
(*                                                                         *)
(* Numbers.  Percentages of the provider payload are integers in           *)
(* milli-percent (1/1000 %), so 8.65 % is 8650 and 8.126 % is 8126.        *)
(* Money is an exact fraction [n, d] of cents.  JavaScript's               *)
(* Number.toFixed(2) rounds the exact value of its argument to the nearest *)
(* hundredth, ties away from zero; the model does the same on exact        *)
(* rationals.  The two agree unless the exact value is a decimal tie       *)
(* (x.xx5), where the side on which the double falls decides the code's    *)
(* result; the input sets below leave out the inputs that meet such a tie, *)
(* so that every value of the model is the value the code computes.        *)
(***************************************************************************)
EXTENDS Integers, Sequences, FiniteSets, TLC

VARIABLES
    fpc,        \* position of the fetchAssumptionsWithSearch call
    finv,       \* its investment argument
    ftext,      \* response.text as received from the provider
    flocals,    \* locals of the normalisation (service.ts 104-124)
    fresult,    \* the InvestmentAssumption returned, or NoAssumption
    ferror,     \* the Error thrown, or NoError
    ppc,        \* position of the projectScenario call
    pinput,     \* its arguments (investment, annualReturnPct, years)
    pvalues,    \* the number[] it returned
    bpc,        \* position of the buildForecast call
    brequest,   \* its request argument
    bassumptions, \* its assumptions argument
    bforecast,  \* the ForecastResponse returned, or NoForecast
    berror,     \* the Error thrown, or NoBuildError
    portfolios, \* Firestore collection "portfolios": uid -> document
    forecasts,  \* Firestore collection "wealthForecasts": uid -> document
    writes,     \* the writes Firestore has committed, oldest first
    rpc,        \* per POST /api/forecast run: the position of the handler
    rrequest,   \* per run: the Authorization header and the body received
    ruid,       \* per run: the uid verifyIdToken returned, "" before
    rcalls,     \* per run: one fetchAssumptionsWithSearch call per investment
    rbuilds,    \* per run: the assumption lists buildForecast was run on
    rforecast,  \* per run: the forecast buildForecast returned
    rrunId,     \* per run: the id saveForecastRun returned, "" before
    rresponse,  \* per run: the HTTP response, or NoResponse
    user,       \* useAuth().user: the uid signed in, or "" for null
    planner,    \* PlannerProvider: its useState values and its refs
    timers,     \* the browser's pending setTimeout callbacks, oldest first
    loads,      \* GET /api/portfolio requests awaiting their response
    posts,      \* POST /api/forecast requests awaiting their response
    owner,      \* whose stored data the planner's settings and forecast are
    puts,       \* the PUT /api/portfolio requests sent, oldest first
    event,      \* what the last handler of the planner did
    acts        \* the number of things the user has done

vars == <<fpc, finv, ftext, flocals, fresult, ferror, ppc, pinput, pvalues,
          bpc, brequest, bassumptions, bforecast, berror,
          portfolios, forecasts, writes,
          rpc, rrequest, ruid, rcalls, rbuilds, rforecast, rrunId, rresponse,
          user, planner, timers, loads, posts, owner, puts, event, acts>>
fetchVars == <<fpc, finv, ftext, flocals, fresult, ferror>>
projVars == <<ppc, pinput, pvalues>>
buildVars == <<bpc, brequest, bassumptions, bforecast, berror>>
storeVars == <<portfolios, forecasts, writes>>
routeVars == <<rpc, rrequest, ruid, rcalls, rbuilds, rforecast, rrunId, rresponse>>
plannerVars == <<user, planner, timers, loads, posts, owner, puts, event, acts>>

\* What a step of one function leaves alone: the state of the others.
otherThanFetch == <<projVars, buildVars, storeVars, routeVars, plannerVars>>
otherThanProject == <<fetchVars, buildVars, storeVars, routeVars, plannerVars>>
otherThanBuild == <<fetchVars, projVars, storeVars, routeVars, plannerVars>>
otherThanStore == <<fetchVars, projVars, buildVars, routeVars, plannerVars>>
otherThanRoute == <<fetchVars, projVars, buildVars, plannerVars>>
otherThanPlanner == <<fetchVars, projVars, buildVars, routeVars>>

(***************************************************************************)
(* Arithmetic helpers                                                      *)
(***************************************************************************)
Min(a, b) == IF a <= b THEN a ELSE b

Max(a, b) == IF a >= b THEN a ELSE b

\* Nearest integer to n / d (d > 0), ties away from zero: what
\* Number(x.toFixed(0)) gives for the exact value x = n / d.
RoundDiv(n, d) ==
    IF n >= 0 THEN (2 * n + d) \div (2 * d)
    ELSE -((2 * (-n) + d) \div (2 * d))

\* n / d (d > 0) lies exactly half way between two integers.
IsDecimalTie(n, d) == (2 * n) % d = 0 /\ ((2 * n) \div d) % 2 = 1

RECURSIVE SumSeq(_)
SumSeq(s) == IF s = <<>> THEN 0 ELSE Head(s) + SumSeq(Tail(s))

(***************************************************************************)
(* JSON values: a tag (what typeof / null checks see), a number, a string  *)
(***************************************************************************)
Num(x) == [t |-> "number", n |-> x, s |-> ""]

Str(x) == [t |-> "string", n |-> 0, s |-> x]

JNull == [t |-> "null", n |-> 0, s |-> ""]

Undefined == [t |-> "undefined", n |-> 0, s |-> ""]


(***************************************************************************)
(* The provider's response text: the tokens before the body, the body (a   *)
(* JSON document or something JSON.parse rejects), the tokens after it.    *)
(* A token is a fence (three backticks followed by json in any letter     *)
(* case, "FENCE json"; or three backticks alone, "FENCE") or white space.  *)
(***************************************************************************)
IsWhitespace(tok) == tok \in {" ", "\n"}

IsJsonFence(tok) == tok \in {"FENCE json", "FENCE JSON", "FENCE Json"}

Tokens(text) == text.pre \o <<"BODY">> \o text.post

RECURSIVE TrimStart(_)
TrimStart(toks) ==
    IF toks # <<>> /\ IsWhitespace(Head(toks)) THEN TrimStart(Tail(toks)) ELSE toks

RECURSIVE TrimEnd(_)
TrimEnd(toks) ==
    IF toks # <<>> /\ IsWhitespace(toks[Len(toks)])
    THEN TrimEnd(SubSeq(toks, 1, Len(toks) - 1))
    ELSE toks

\* text.replace(/^FENCEjson\s*/i, "").replace(/FENCE$/i, "").trim()
\* The second pattern has no m flag: "$" matches at the very end of the
\* string only, so a fence followed by a newline is not removed.
CleanJsonBlock(toks) ==
    LET opened == IF toks # <<>> /\ IsJsonFence(Head(toks))
                  THEN TrimStart(Tail(toks)) ELSE toks
        closed == IF opened # <<>> /\ opened[Len(opened)] = "FENCE"
                  THEN SubSeq(opened, 1, Len(opened) - 1) ELSE opened
    IN  TrimEnd(TrimStart(closed))

\* JSON.parse(raw) returns a value exactly when raw is one JSON document
\* (JSON.parse itself skips surrounding white space).
JsonParses(text) ==
    /\ text.body.kind = "json"
    /\ TrimEnd(TrimStart(CleanJsonBlock(Tokens(text)))) = <<"BODY">>

(***************************************************************************)
(* assumptionSchema (zod)                                                  *)
(***************************************************************************)
IsNumber(v) == v.t = "number"

IsOptionalNullableNumber(v) == v.t \in {"number", "null", "undefined"}

IsOptionalNullableString(v) == v.t \in {"string", "null", "undefined"}

Confidences == {"low", "medium", "high"}

SourceItemOk(item) == item.title.t = "string" /\ item.uri.t = "string"

SourcesOk(src) ==
    \/ src.t = "undefined"
    \/ /\ src.t = "array"
       /\ \A i \in 1..Len(src.items) : SourceItemOk(src.items[i])

SchemaAccepts(p) ==
    /\ IsNumber(p.expectedAnnualReturnPct)
    /\ IsNumber(p.conservativeAnnualReturnPct)
    /\ IsNumber(p.aggressiveAnnualReturnPct)
    /\ IsOptionalNullableNumber(p.ytdReturnPct)
    /\ IsOptionalNullableNumber(p.oneYearReturnPct)
    /\ IsOptionalNullableNumber(p.threeYearCagrPct)
    /\ IsOptionalNullableNumber(p.fiveYearCagrPct)
    /\ IsOptionalNullableNumber(p.sinceInceptionCagrPct)
    /\ IsOptionalNullableString(p.historyAsOf)
    /\ p.confidence.t = "string" /\ p.confidence.s \in Confidences
    /\ p.rationale.t = "string"
    /\ SourcesOk(p.sources)

\* The value assumptionSchema.parse returns: the payload, with sources
\* defaulted to [] when it is undefined.
SchemaParse(p) ==
    [p EXCEPT !.sources =
        IF p.sources.t = "undefined" THEN [t |-> "array", items |-> <<>>]
        ELSE p.sources]

(***************************************************************************)
(* Normalisation (service.ts 33-44, 104-140)                               *)
(***************************************************************************)
\* Mutant: the lower bound of the clamp is -100 instead of -80.
SanitizeRateWrongBound(n, d) == 10 * Max(-10000, Min(12000, RoundDiv(n, d)))

\* sanitizeRate(value) for value = n / d hundredths of a percent (d > 0):
\* Math.max(-80, Math.min(120, Number(value.toFixed(2)))), in milli-percent.
SanitizeRate(n, d) == 10 * Max(-8000, Min(12000, RoundDiv(n, d)))

\* sanitizeRate of a payload number x given in milli-percent.
SanitizeRaw(x) == SanitizeRate(x, 10)

NoAnchor == [isNull |-> TRUE, n |-> 0, d |-> 1]

\* Mutant: the average of no numbers is 0 instead of null.
AverageOfNoneIsZero(numbers) ==
    IF Len(numbers) = 0 THEN [isNull |-> FALSE, n |-> 0, d |-> 1]
    ELSE [isNull |-> FALSE, n |-> SumSeq(numbers), d |-> Len(numbers)]

\* average(numbers): null for [], else sum / length, kept as the exact
\* fraction n / d.
Average(numbers) ==
    IF Len(numbers) = 0 THEN NoAnchor
    ELSE [isNull |-> FALSE, n |-> SumSeq(numbers), d |-> Len(numbers)]

\* Mutant: the filter drops only undefined entries, so a null counts as 0.
HistoricalSignalsNullAsZero(parsed) ==
    LET one == parsed.oneYearReturnPct
        all == << [t |-> parsed.threeYearCagrPct.t,
                   n |-> 10 * parsed.threeYearCagrPct.n],
                  [t |-> parsed.fiveYearCagrPct.t,
                   n |-> 10 * parsed.fiveYearCagrPct.n],
                  [t |-> parsed.sinceInceptionCagrPct.t,
                   n |-> 10 * parsed.sinceInceptionCagrPct.n],
                  IF one.t # "null" /\ one.t # "undefined"
                  THEN [t |-> one.t, n |-> 6 * one.n]
                  ELSE [t |-> "null", n |-> 0] >>
        kept == SelectSeq(all, LAMBDA item : item.t # "undefined")
    IN  [i \in 1..Len(kept) |-> kept[i].n]

\* The historicalSignals array, each entry in 1/10000 %: the three CAGRs as
\* they are, oneYearReturnPct * 0.6 when it is neither null nor undefined,
\* and only the entries whose typeof is "number".
HistoricalSignals(parsed) ==
    LET one == parsed.oneYearReturnPct
        all == << [t |-> parsed.threeYearCagrPct.t,
                   n |-> 10 * parsed.threeYearCagrPct.n],
                  [t |-> parsed.fiveYearCagrPct.t,
                   n |-> 10 * parsed.fiveYearCagrPct.n],
                  [t |-> parsed.sinceInceptionCagrPct.t,
                   n |-> 10 * parsed.sinceInceptionCagrPct.n],
                  IF one.t # "null" /\ one.t # "undefined"
                  THEN [t |-> one.t, n |-> 6 * one.n]
                  ELSE [t |-> "null", n |-> 0] >>
        kept == SelectSeq(all, LAMBDA item : item.t = "number")
    IN  [i \in 1..Len(kept) |-> kept[i].n]

\* Mutant: the two weights are swapped (0.45 model, 0.55 history).
BlendExpectedSwapped(expectedRaw, anchor) ==
    SanitizeRate(450 * expectedRaw * anchor.d + 55 * anchor.n, 10000 * anchor.d)

\* expectedRaw * 0.55 + historyAnchor * 0.45, sanitized.  expectedRaw is in
\* milli-percent, the anchor is n / d in 1/10000 %; the sum in hundredths of
\* a percent is (550 * expectedRaw * d + 45 * n) / (10000 * d).
BlendExpected(expectedRaw, anchor) ==
    SanitizeRate(550 * expectedRaw * anchor.d + 45 * anchor.n, 10000 * anchor.d)

\* Mutant: the three rates are returned as labelled, without sorting.
SortRatesOmitted(r) == r

\* [a, b, c].sort((x, y) => x - y)
SortRates(r) ==
    LET lo  == Min(r[1], Min(r[2], r[3]))
        hi  == Max(r[1], Max(r[2], r[3]))
        mid == r[1] + r[2] + r[3] - lo - hi
    IN  <<lo, mid, hi>>

\* (parsed.sources || []).slice(0, 5)
SliceSources(items) == SubSeq(items, 1, Min(5, Len(items)))

\* Mutant: an absent field is carried as the number 0.
OrNullAbsentAsZero(v) == IF v.t = "undefined" THEN Num(0) ELSE v

\* x ?? null
OrNull(v) == IF v.t = "undefined" THEN JNull ELSE v

Locals(parsed) ==
    LET historyAnchor == Average(HistoricalSignals(parsed))
        conservative  == SanitizeRaw(parsed.conservativeAnnualReturnPct.n)
        expectedRaw   == SanitizeRaw(parsed.expectedAnnualReturnPct.n)
        aggressive    == SanitizeRaw(parsed.aggressiveAnnualReturnPct.n)
        expected      == IF historyAnchor.isNull THEN expectedRaw
                         ELSE BlendExpected(expectedRaw, historyAnchor)
    IN  [ set           |-> TRUE,
          historyAnchor |-> historyAnchor,
          conservative  |-> conservative,
          expectedRaw   |-> expectedRaw,
          aggressive    |-> aggressive,
          expected      |-> expected ]

NoLocals ==
    [ set |-> FALSE, historyAnchor |-> NoAnchor, conservative |-> 0,
      expectedRaw |-> 0, aggressive |-> 0, expected |-> 0 ]

Assumption(investment, parsed, loc) ==
    LET sorted == SortRates(<<loc.conservative, loc.expected, loc.aggressive>>)
    IN  [ investmentId                |-> investment.id,
          expectedAnnualReturnPct     |-> sorted[2],
          conservativeAnnualReturnPct |-> sorted[1],
          aggressiveAnnualReturnPct   |-> sorted[3],
          ytdReturnPct                |-> OrNull(parsed.ytdReturnPct),
          oneYearReturnPct            |-> OrNull(parsed.oneYearReturnPct),
          threeYearCagrPct            |-> OrNull(parsed.threeYearCagrPct),
          fiveYearCagrPct             |-> OrNull(parsed.fiveYearCagrPct),
          sinceInceptionCagrPct       |-> OrNull(parsed.sinceInceptionCagrPct),
          historyAsOf                 |-> OrNull(parsed.historyAsOf),
          confidence                  |-> parsed.confidence.s,
          rationale                   |-> parsed.rationale.s,
          sources                     |-> SliceSources(parsed.sources.items) ]


(***************************************************************************)
(* Inputs of the model: investments, provider payloads, response texts     *)
(***************************************************************************)
MaxSources == 6

FetchInvestments ==
    { [id |-> "inv-1", name |-> "Axis Bluechip Fund"],
      [id |-> "inv-2", name |-> "NIFTY 50 ETF"] }

Payload(c, e, a, ytd, one, three, five, since, src) ==
    [ conservativeAnnualReturnPct |-> c,
      expectedAnnualReturnPct     |-> e,
      aggressiveAnnualReturnPct   |-> a,
      ytdReturnPct                |-> ytd,
      oneYearReturnPct            |-> one,
      threeYearCagrPct            |-> three,
      fiveYearCagrPct             |-> five,
      sinceInceptionCagrPct       |-> since,
      historyAsOf                 |-> Str("2026-02-21"),
      confidence                  |-> Str("medium"),
      rationale                   |-> Str("Long-run category returns."),
      sources                     |-> src ]

SourceItem(u) == [title |-> Str("Source"), uri |-> Str(u)]

SourceArray(items) == [t |-> "array", items |-> items]

Urls ==
    { "https://example.com/fund",
      "https://example.com/fund#returns",
      "https://vertexaisearch.cloud.google.com/grounding-api-redirect/AbC",
      "https://news.example.org/redirect/article" }

SourceLists ==
    UNION { [1..k -> {SourceItem(u) : u \in Urls}] : k \in 0..MaxSources }

OneSource == SourceArray(<<SourceItem("https://example.com/fund")>>)

\* Raw rates in milli-percent: -999 %, 500 %, a value with a third decimal
\* (8.126 %), and ordinary values in and out of order.
ConservativeRates == {-999000, 5000, 12000, 500000}

ExpectedRates == {-999000, 5000, 8126, 10000, 500000}

AggressiveRates == {-999000, 4000, 20000, 500000}

ThreeYearSignals == {Undefined, JNull, Num(0), Num(8000), Num(400000)}

FiveYearSignals == {Undefined, JNull, Num(6000)}

SinceInceptionSignals == {JNull, Num(0), Num(-300000)}

OneYearSignals == {Undefined, JNull, Num(0), Num(5000)}

YtdSignals == {JNull, Num(9000)}

\* The blend of the payload's expected rate with its history is no decimal
\* tie.
BlendTieFree(p) ==
    LET anchor == Average(HistoricalSignals(p))
    IN  anchor.isNull
        \/ ~IsDecimalTie(550 * SanitizeRaw(p.expectedAnnualReturnPct.n) * anchor.d
                            + 45 * anchor.n,
                         10000 * anchor.d)

RatePayloads ==
    { p \in { Payload(Num(c), Num(e), Num(a), ytd, one, three, five, since, OneSource) :
                c \in ConservativeRates, e \in ExpectedRates, a \in AggressiveRates,
                ytd \in YtdSignals, one \in OneYearSignals, three \in ThreeYearSignals,
                five \in FiveYearSignals, since \in SinceInceptionSignals } :
        BlendTieFree(p) }

BasePayload ==
    Payload(Num(5000), Num(10000), Num(20000), JNull, JNull, JNull, JNull, JNull,
            OneSource)

SourcePayloads ==
    { [BasePayload EXCEPT !.sources = SourceArray(items)] : items \in SourceLists }
    \cup { [BasePayload EXCEPT !.sources = [t |-> "undefined", items |-> <<>>]] }

EmptyObject ==
    [ conservativeAnnualReturnPct |-> Undefined,
      expectedAnnualReturnPct     |-> Undefined,
      aggressiveAnnualReturnPct   |-> Undefined,
      ytdReturnPct                |-> Undefined,
      oneYearReturnPct            |-> Undefined,
      threeYearCagrPct            |-> Undefined,
      fiveYearCagrPct             |-> Undefined,
      sinceInceptionCagrPct       |-> Undefined,
      historyAsOf                 |-> Undefined,
      confidence                  |-> Undefined,
      rationale                   |-> Undefined,
      sources                     |-> [t |-> "undefined", items |-> <<>>] ]

\* Payloads that are JSON but not an assumption: one field of BasePayload
\* missing or of the wrong type.
MalformedPayloads ==
    { EmptyObject,
      [BasePayload EXCEPT !.expectedAnnualReturnPct = Undefined],
      [BasePayload EXCEPT !.conservativeAnnualReturnPct = Str("5")],
      [BasePayload EXCEPT !.aggressiveAnnualReturnPct = JNull],
      [BasePayload EXCEPT !.confidence = Str("certain")],
      [BasePayload EXCEPT !.confidence = Undefined],
      [BasePayload EXCEPT !.rationale = Undefined],
      [BasePayload EXCEPT !.rationale = Num(1)],
      [BasePayload EXCEPT !.threeYearCagrPct = Str("8")],
      [BasePayload EXCEPT !.historyAsOf = Num(2026)],
      [BasePayload EXCEPT !.sources = [t |-> "string", items |-> <<>>]],
      [BasePayload EXCEPT !.sources = [t |-> "null", items |-> <<>>]],
      [BasePayload EXCEPT !.sources =
          SourceArray(<<[title |-> Str("Source"), uri |-> Num(1)]>>)],
      [BasePayload EXCEPT !.sources =
          SourceArray(<<[title |-> Undefined, uri |-> Str("https://example.com/fund")]>>)] }

\* Payloads that differ in the fields the normalisation only passes on.
LabelPayloads ==
    { [BasePayload EXCEPT !.confidence = Str(confidence),
                          !.rationale = Str(rationale),
                          !.historyAsOf = asOf,
                          !.ytdReturnPct = ytd,
                          !.threeYearCagrPct = three] :
        confidence \in Confidences,
        rationale \in {"Long-run category returns.", ""},
        asOf \in {Undefined, JNull, Str("2026-02-21"), Str("")},
        ytd \in {Undefined, JNull, Num(-4200)},
        three \in {Undefined, Num(12000)} }

Payloads == RatePayloads \cup SourcePayloads \cup LabelPayloads \cup MalformedPayloads

JsonBody(p) == [kind |-> "json", value |-> p]

GarbageBody == [kind |-> "garbage", value |-> EmptyObject]

\* response.text undefined or "": the code parses "{}" instead.
EmptyText == [pre |-> <<>>, body |-> [kind |-> "empty", value |-> EmptyObject], post |-> <<>>]

Prefixes ==
    { <<>>, <<"\n">>, <<"FENCE json", "\n">>, <<"FENCE JSON", " ", "\n">>,
      <<"FENCE json">>, <<"FENCE", "\n">>, <<" ", "FENCE json", "\n">> }

Suffixes ==
    { <<>>, <<"\n">>, <<"\n", "FENCE">>, <<"FENCE">>, <<"\n", "FENCE", "\n">>,
      <<"\n", "FENCE", " ">> }

WrappedPayloads ==
    { BasePayload,
      Payload(Num(20000), Num(10000), Num(5000), JNull, Num(5000), Num(8000),
              Num(6000), JNull, OneSource),
      [BasePayload EXCEPT !.confidence = Str("certain")] }

ResponseTexts ==
    { [pre |-> <<>>, body |-> JsonBody(p), post |-> <<>>] : p \in Payloads }
    \cup { [pre |-> pre, body |-> JsonBody(p), post |-> post] :
             pre \in Prefixes, post \in Suffixes, p \in WrappedPayloads }
    \cup { [pre |-> pre, body |-> GarbageBody, post |-> post] :
             pre \in Prefixes, post \in Suffixes }
    \cup { EmptyText }

(***************************************************************************)
(* fetchAssumptionsWithSearch                                              *)
(***************************************************************************)
NoInvestment == [id |-> "", name |-> ""]

NoText == [pre |-> <<>>, body |-> [kind |-> "none", value |-> EmptyObject], post |-> <<>>]

NoAssumption == [investmentId |-> ""]

NoError == [message |-> <<>>]

\* Mutant: a generic message that does not name the investment.
InvalidPayloadErrorUnnamed(investment, cause) ==
    [message |-> <<"Gemini returned invalid assumption payload: ", cause>>]

\* new Error("Gemini returned invalid assumption payload for ${investment.name}: ${error.message}")
InvalidPayloadError(investment, cause) ==
    [message |-> <<"Gemini returned invalid assumption payload for ",
                   investment.name, ": ", cause>>]

\* Whatever ai.models.generateContent rejects with; it passes through.
TransportError == [message |-> <<"fetch failed">>]

\* response.text || "{}"
TextOrBraces(text) ==
    IF text.body.kind = "empty"
    THEN [pre |-> <<>>, body |-> JsonBody(EmptyObject), post |-> <<>>]
    ELSE text

\* service.ts 46-87: the prompt is built and the request is sent.
FetchCall(investment) ==
    /\ fpc = "idle"
    /\ fpc' = "awaiting"
    /\ finv' = investment
    /\ UNCHANGED <<ftext, flocals, fresult, ferror, otherThanFetch>>

\* The await at service.ts 81 rejects: the call throws what the SDK threw.
FetchTransportFailure ==
    /\ fpc = "awaiting"
    /\ fpc' = "threw"
    /\ ferror' = TransportError
    /\ UNCHANGED <<finv, ftext, flocals, fresult, otherThanFetch>>

\* service.ts 89-140: the response arrives; it is cleaned, parsed, validated
\* and normalised, and the call returns the assumption or throws.
FetchResponse(text) ==
    /\ fpc = "awaiting"
    /\ ftext' = text
    /\ LET raw == TextOrBraces(text)
       IN  IF ~JsonParses(raw)
           THEN /\ fpc' = "threw"
                /\ ferror' = InvalidPayloadError(finv, "SyntaxError")
                /\ UNCHANGED <<flocals, fresult>>
           ELSE IF ~SchemaAccepts(raw.body.value)
           THEN /\ fpc' = "threw"
                /\ ferror' = InvalidPayloadError(finv, "ZodError")
                /\ UNCHANGED <<flocals, fresult>>
           ELSE LET parsed == SchemaParse(raw.body.value)
                    loc    == Locals(parsed)
                IN  /\ fpc' = "returned"
                    /\ flocals' = loc
                    /\ fresult' = Assumption(finv, parsed, loc)
                    /\ UNCHANGED ferror
    /\ UNCHANGED <<finv, otherThanFetch>>

\* fetchAssumptionsWithSearch as a function of the investment and of the
\* text the provider answered with (service.ts 89-140).
FetchOutcome(investment, text) ==
    LET raw == TextOrBraces(text)
    IN  IF ~JsonParses(raw)
        THEN [ threw      |-> TRUE,
               error      |-> InvalidPayloadError(investment, "SyntaxError"),
               assumption |-> NoAssumption ]
        ELSE IF ~SchemaAccepts(raw.body.value)
        THEN [ threw      |-> TRUE,
               error      |-> InvalidPayloadError(investment, "ZodError"),
               assumption |-> NoAssumption ]
        ELSE LET parsed == SchemaParse(raw.body.value)
             IN  [ threw      |-> FALSE,
                   error      |-> NoError,
                   assumption |-> Assumption(investment, parsed, Locals(parsed)) ]

InitFetch ==
    /\ fpc = "idle"
    /\ finv = NoInvestment
    /\ ftext = NoText
    /\ flocals = NoLocals
    /\ fresult = NoAssumption
    /\ ferror = NoError

(***************************************************************************)
(* Exact fractions n / d (d > 0, lowest terms) for money in cents          *)
(***************************************************************************)
RECURSIVE Gcd(_, _)
Gcd(a, b) == IF b = 0 THEN a ELSE Gcd(b, a % b)

Abs(x) == IF x < 0 THEN -x ELSE x

Frac(n, d) ==
    LET g == Gcd(Abs(n), d)
    IN  [n |-> n \div g, d |-> d \div g]

\* a * b, cancelling across before multiplying.
FMul(a, b) ==
    LET g1 == Gcd(Abs(a.n), b.d)
        g2 == Gcd(Abs(b.n), a.d)
    IN  Frac((a.n \div g1) * (b.n \div g2), (a.d \div g2) * (b.d \div g1))

FAdd(a, b) ==
    LET g == Gcd(a.d, b.d)
    IN  Frac(a.n * (b.d \div g) + b.n * (a.d \div g), (a.d \div g) * b.d)

\* Number(x.toFixed(2)) of an amount x = f.n / f.d cents, in cents.
ToFixed2(f) == RoundDiv(f.n, f.d)

(***************************************************************************)
(* calculator.ts: annualContribution, projectScenario                      *)
(***************************************************************************)
\* Mutant: a one_time contribution is also added every year.
AnnualContributionOneTimeRecurring(input) ==
    CASE input.contributionFrequency = "monthly"  -> input.contributionAmount * 12
      [] input.contributionFrequency = "yearly"   -> input.contributionAmount
      [] input.contributionFrequency = "one_time" -> input.contributionAmount
      [] OTHER -> 0

\* annualContribution(input), in cents.
AnnualContribution(input) ==
    CASE input.contributionFrequency = "monthly"  -> input.contributionAmount * 12
      [] input.contributionFrequency = "yearly"   -> input.contributionAmount
      [] input.contributionFrequency = "one_time" -> 0
      [] OTHER -> 0

\* investment.contributionFrequency === "one_time" ? investment.contributionAmount : 0
OneTimeSeed(investment) ==
    IF investment.contributionFrequency = "one_time"
    THEN investment.contributionAmount ELSE 0

\* 1 + annualReturnPct / 100, for annualReturnPct in milli-percent.
GrowthFactor(annualReturnPct) == Frac(100000 + annualReturnPct, 100000)

\* Mutant: the running value itself is rounded to 2 decimals every year.
LoopStepRounded(runningValue, factor, contribution) ==
    Frac(ToFixed2(FAdd(FMul(runningValue, factor), Frac(contribution, 1))), 1)

\* One pass of the for loop: the running value is carried as it is, and only
\* the value pushed is rounded.
LoopStep(runningValue, factor, contribution) ==
    FAdd(FMul(runningValue, factor), Frac(contribution, 1))

RECURSIVE ProjectLoop(_, _, _, _, _, _)
ProjectLoop(runningValue, factor, contribution, year, years, values) ==
    IF year > years THEN values
    ELSE LET next == LoopStep(runningValue, factor, contribution)
         IN  ProjectLoop(next, factor, contribution, year + 1, years,
                         Append(values, ToFixed2(next)))

\* projectScenario(investment, annualReturnPct, years): the recorded values,
\* in cents.
ProjectScenario(investment, annualReturnPct, years) ==
    ProjectLoop(Frac(investment.initialAmount + OneTimeSeed(investment), 1),
                GrowthFactor(annualReturnPct),
                AnnualContribution(investment),
                1, years, <<>>)

(***************************************************************************)
(* Inputs of projectScenario                                               *)
(***************************************************************************)
MaxYears == 3

Frequencies == {"monthly", "yearly", "one_time"}

ProjectionInput(freq, contribution, initial, rate, years) ==
    [ investment |-> [ contributionFrequency |-> freq,
                       contributionAmount    |-> contribution,
                       initialAmount         |-> initial ],
      annualReturnPct |-> rate,
      years |-> years ]

\* Rates in milli-percent: the two ends of the sanitized range, 0, and
\* rates whose growth factor has a small denominator.
ProjectionRates == {-80000, 0, 10000, 12500, 50000, 120000}

\* Amounts in cents.
SmallInputs ==
    { ProjectionInput(freq, contribution, initial, rate, years) :
        freq \in Frequencies, contribution \in {0, 1, 100},
        initial \in {0, 5, 1001, 2000}, rate \in ProjectionRates,
        years \in 1..MaxYears }

\* 1000.00 with a one-time 500.00; 0 with 100.00 a month; 1000.04 alone.
LargeInputs ==
    { ProjectionInput(freq, contribution, initial, rate, years) :
        freq \in Frequencies, contribution \in {0, 10000, 50000},
        initial \in {0, 100000, 100004}, rate \in {0, 10000},
        years \in 1..MaxYears }

\* No year's running value is a decimal tie.
RECURSIVE LoopTieFree(_, _, _, _, _)
LoopTieFree(runningValue, factor, contribution, year, years) ==
    \/ year > years
    \/ LET next == LoopStep(runningValue, factor, contribution)
       IN  /\ ~IsDecimalTie(next.n, next.d)
           /\ LoopTieFree(next, factor, contribution, year + 1, years)

TieFree(input) ==
    LoopTieFree(Frac(input.investment.initialAmount + OneTimeSeed(input.investment), 1),
                GrowthFactor(input.annualReturnPct),
                AnnualContribution(input.investment), 1, input.years)

ProjectionInputs == { input \in SmallInputs \cup LargeInputs : TieFree(input) }

NoInput == ProjectionInput("", 0, 0, 0, 0)

\* One call of projectScenario, from its arguments to its return value.
ProjectCall(input) ==
    /\ ppc = "idle"
    /\ ppc' = "returned"
    /\ pinput' = input
    /\ pvalues' = ProjectScenario(input.investment, input.annualReturnPct, input.years)
    /\ UNCHANGED otherThanProject

\* The caller takes the result; the function can be called again.
ProjectDone ==
    /\ ppc = "returned"
    /\ ppc' = "idle"
    /\ pinput' = NoInput
    /\ pvalues' = <<>>
    /\ UNCHANGED otherThanProject

InitProject ==
    /\ ppc = "idle"
    /\ pinput = NoInput
    /\ pvalues = <<>>

(***************************************************************************)
(* calculator.ts: buildForecast                                            *)
(***************************************************************************)
NoForecast == [generatedAt |-> ""]

NoBuildError == [message |-> <<>>]

\* Mutant: the k-th investment takes the k-th assumption of the list.
FindAssumptionByPosition(assumptions, investments, k) ==
    IF k <= Len(assumptions) THEN k ELSE 0

RECURSIVE FindIndexFrom(_, _, _)
FindIndexFrom(assumptions, id, i) ==
    IF i > Len(assumptions) THEN 0
    ELSE IF assumptions[i].investmentId = id THEN i
    ELSE FindIndexFrom(assumptions, id, i + 1)

\* assumptions.find((item) => item.investmentId === investment.id) for the
\* k-th investment: the index of the first match, 0 for undefined.
FindAssumption(assumptions, investments, k) ==
    FindIndexFrom(assumptions, investments[k].id, 1)

\* Mutant: the conservative and the aggressive rate are exchanged.
YearlyRowsSwapped(investment, assumption, years) ==
    LET conservative == ProjectScenario(investment,
                            assumption.aggressiveAnnualReturnPct, years)
        expected     == ProjectScenario(investment,
                            assumption.expectedAnnualReturnPct, years)
        aggressive   == ProjectScenario(investment,
                            assumption.conservativeAnnualReturnPct, years)
    IN  [ i \in 1..years |->
            [ year              |-> i,
              conservativeValue |-> conservative[i],
              expectedValue     |-> expected[i],
              aggressiveValue   |-> aggressive[i] ] ]

\* The yearly rows of one investment (calculator.ts 53-74).
YearlyRows(investment, assumption, years) ==
    LET conservative == ProjectScenario(investment,
                            assumption.conservativeAnnualReturnPct, years)
        expected     == ProjectScenario(investment,
                            assumption.expectedAnnualReturnPct, years)
        aggressive   == ProjectScenario(investment,
                            assumption.aggressiveAnnualReturnPct, years)
    IN  [ i \in 1..years |->
            [ year              |-> i,
              conservativeValue |-> conservative[i],
              expectedValue     |-> expected[i],
              aggressiveValue   |-> aggressive[i] ] ]

\* request.investments.map(...) when every investment has an assumption.
Projections(request, assumptions) ==
    [ k \in 1..Len(request.investments) |->
        LET investment == request.investments[k]
            assumption == assumptions[FindAssumption(assumptions,
                                                     request.investments, k)]
        IN  [ investmentId   |-> investment.id,
              investmentName |-> investment.name,
              yearly         |-> YearlyRows(investment, assumption, request.years) ] ]

\* projections.reduce(...) for the year of index i.
RECURSIVE ReduceTotals(_, _, _, _)
ReduceTotals(projections, i, k, acc) ==
    IF k > Len(projections) THEN acc
    ELSE LET yearData == projections[k].yearly[i]
         IN  ReduceTotals(projections, i, k + 1,
                 [ conservative |-> acc.conservative + yearData.conservativeValue,
                   expected     |-> acc.expected + yearData.expectedValue,
                   aggressive   |-> acc.aggressive + yearData.aggressiveValue ])

\* Mutant: the totals row holds the first investment's values only.
TotalRowFirstOnly(projections, i) ==
    [ year              |-> i,
      conservativeValue |-> projections[1].yearly[i].conservativeValue,
      expectedValue     |-> projections[1].yearly[i].expectedValue,
      aggressiveValue   |-> projections[1].yearly[i].aggressiveValue ]

\* One row of totalProjection (calculator.ts 83-100).
TotalRow(projections, i) ==
    LET totals == ReduceTotals(projections, i, 1,
                      [conservative |-> 0, expected |-> 0, aggressive |-> 0])
    IN  [ year              |-> i,
          conservativeValue |-> ToFixed2(Frac(totals.conservative, 1)),
          expectedValue     |-> ToFixed2(Frac(totals.expected, 1)),
          aggressiveValue   |-> ToFixed2(Frac(totals.aggressive, 1)) ]

\* The ForecastResponse of calculator.ts 103-109.
BuildReturn(request, assumptions, now) ==
    LET projections == Projections(request, assumptions)
    IN  [ generatedAt     |-> now,
          currency        |-> request.currency,
          assumptions     |-> assumptions,
          projections     |-> projections,
          totalProjection |-> [i \in 1..request.years |-> TotalRow(projections, i)] ]

\* The investments (by index) for which find returns undefined.
MissingIndexes(request, assumptions) ==
    { k \in 1..Len(request.investments) :
        FindAssumption(assumptions, request.investments, k) = 0 }

\* new Error("Missing assumption for investment: ${investment.id}")
MissingAssumptionError(investment) ==
    [message |-> <<"Missing assumption for investment: ", investment.id>>]

\* Mutant: an investment without an assumption is left out of the forecast.
BuildForecastSkipMissing(request, assumptions, now) ==
    LET missing == MissingIndexes(request, assumptions)
        kept    == { k \in 1..Len(request.investments) : k \notin missing }
        Has(investment) == \E k \in kept : request.investments[k] = investment
    IN  [ threw    |-> FALSE,
          error    |-> NoBuildError,
          forecast |-> BuildReturn(
              [request EXCEPT !.investments = SelectSeq(@, Has)],
              assumptions, now) ]

\* buildForecast(request, assumptions): map throws at the first investment
\* without an assumption; otherwise the response is returned.
BuildForecast(request, assumptions, now) ==
    LET missing == MissingIndexes(request, assumptions)
    IN  IF missing # {}
        THEN LET first == CHOOSE k \in missing : \A j \in missing : k <= j
             IN  [ threw    |-> TRUE,
                   error    |-> MissingAssumptionError(request.investments[first]),
                   forecast |-> NoForecast ]
        ELSE [ threw    |-> FALSE,
               error    |-> NoBuildError,
               forecast |-> BuildReturn(request, assumptions, now) ]

(***************************************************************************)
(* Inputs of buildForecast                                                 *)
(***************************************************************************)
MaxHorizon == 2

Investment(id, name, freq, contribution, initial) ==
    [ id                    |-> id,
      type                  |-> "mutual_fund",
      name                  |-> name,
      contributionFrequency |-> freq,
      contributionAmount    |-> contribution,
      initialAmount         |-> initial ]

\* 1000.00 held and a one-time 500.00.
AxisFund == Investment("inv-1", "Axis Bluechip Fund", "one_time", 50000, 100000)

\* 100.00 a month.
NiftyEtf == Investment("inv-2", "NIFTY 50 ETF", "monthly", 10000, 0)

\* 20.00 held and 1.00 a year.
SmallDeposit == Investment("inv-3", "Post Office Deposit", "yearly", 100, 2000)

\* A second investment carrying the id of the first.
TwinOfAxis == Investment("inv-1", "HDFC Flexi Cap", "yearly", 20000, 0)

InvestmentPool == {AxisFund, NiftyEtf, SmallDeposit, TwinOfAxis}

InvestmentLists ==
    { <<a>> : a \in InvestmentPool }
    \cup { pair \in InvestmentPool \X InvestmentPool : pair[1] # pair[2] }
    \cup { <<AxisFund, NiftyEtf, SmallDeposit>> }

ForecastRequest(years, currency, investments) ==
    [years |-> years, currency |-> currency, investments |-> investments]

\* What fetchAssumptionsWithSearch returns for BasePayload.
BaseAssumption ==
    Assumption(AxisFund, SchemaParse(BasePayload), Locals(SchemaParse(BasePayload)))

\* Sorted, sanitized rates in milli-percent.
RateTriples == { <<0, 0, 0>>, <<5000, 10000, 50000>>, <<-80000, 0, 120000>> }

\* Rates as a caller other than the route can pass them: not in order.
UnsortedRateTriples == { <<50000, 10000, 5000>>, <<10000, 5000, 50000>> }

AssumptionOf(id, rates) ==
    [ BaseAssumption EXCEPT !.investmentId = id,
                            !.conservativeAnnualReturnPct = rates[1],
                            !.expectedAnnualReturnPct = rates[2],
                            !.aggressiveAnnualReturnPct = rates[3] ]

AssumptionPool ==
    { AssumptionOf(id, rates) : id \in {"inv-1", "inv-2", "inv-3"},
                                rates \in RateTriples }

AssumptionLists ==
    { <<>> }
    \cup { <<a>> : a \in AssumptionPool }
    \cup { <<a, b>> : a \in AssumptionPool, b \in AssumptionPool }
    \cup { <<AssumptionOf(ids[1], <<5000, 10000, 50000>>),
             AssumptionOf(ids[2], <<0, 0, 0>>),
             AssumptionOf(ids[3], <<-80000, 0, 120000>>)>> :
             ids \in { <<"inv-1", "inv-2", "inv-3">>, <<"inv-3", "inv-1", "inv-2">>,
                       <<"inv-2", "inv-3", "inv-1">>, <<"inv-1", "inv-1", "inv-2">> } }
    \cup { <<AssumptionOf("inv-1", rates)>> : rates \in UnsortedRateTriples }

\* No value of any of the three scenarios of any investment meets a
\* decimal tie.
BuildTieFree(request, assumptions) ==
    \A k \in 1..Len(request.investments) :
        LET i == FindAssumption(assumptions, request.investments, k)
        IN  i # 0 =>
              \A rate \in { assumptions[i].conservativeAnnualReturnPct,
                            assumptions[i].expectedAnnualReturnPct,
                            assumptions[i].aggressiveAnnualReturnPct } :
                  TieFree([ investment      |-> request.investments[k],
                            annualReturnPct |-> rate,
                            years           |-> request.years ])

BuildRequests ==
    { ForecastRequest(years, "INR", investments) :
        years \in 1..MaxHorizon, investments \in InvestmentLists }

\* The arguments of a call: a request and a list of assumptions.
BuildInputs ==
    { input \in [request : BuildRequests, assumptions : AssumptionLists] :
        BuildTieFree(input.request, input.assumptions) }

\* new Date().toISOString() at the time of the call.
Instants == {"2026-11-01T09:00:00.000Z", "2026-11-02T09:00:00.000Z"}

NoRequest == ForecastRequest(0, "", <<>>)

\* One call of buildForecast, from its arguments to its return or throw.
BuildCall(request, assumptions, now) ==
    /\ bpc = "idle"
    /\ LET outcome == BuildForecast(request, assumptions, now)
       IN  /\ bpc' = IF outcome.threw THEN "threw" ELSE "returned"
           /\ bforecast' = outcome.forecast
           /\ berror' = outcome.error
    /\ brequest' = request
    /\ bassumptions' = assumptions
    /\ UNCHANGED otherThanBuild

\* The caller takes the result; the function can be called again.
BuildDone ==
    /\ bpc \in {"returned", "threw"}
    /\ bpc' = "idle"
    /\ brequest' = NoRequest
    /\ bassumptions' = <<>>
    /\ bforecast' = NoForecast
    /\ berror' = NoBuildError
    /\ UNCHANGED otherThanBuild

InitBuild ==
    /\ bpc = "idle"
    /\ brequest = NoRequest
    /\ bassumptions = <<>>
    /\ bforecast = NoForecast
    /\ berror = NoBuildError

(***************************************************************************)
(* repository.ts: the two Firestore collections, one document per uid.     *)
(* A field of a document is <<>> when the document does not have it and    *)
(* <<value>> when it does.                                                 *)
(***************************************************************************)
Uids == {"alice", "bob"}

Absent == <<>>

Present(v) == <<v>>

\* No document under portfolios/{uid}.
NoPortfolioDoc ==
    [ exists            |-> FALSE,
      currency          |-> Absent,
      years             |-> Absent,
      investments       |-> Absent,
      lastForecast      |-> Absent,
      lastForecastRunId |-> Absent,
      lastForecastAt    |-> Absent,
      updatedAt         |-> Absent ]

\* No document under wealthForecasts/{uid}.
NoForecastDoc ==
    [ exists    |-> FALSE,
      uid       |-> Absent,
      input     |-> Absent,
      output    |-> Absent,
      updatedAt |-> Absent ]

\* FieldValue.serverTimestamp(): the position of the write among all writes.
ServerTimestamp == Len(writes) + 1

\* Mutant: the set is made without merge, so the fields not named are lost.
SavePortfolioDocNoMerge(doc, portfolio, timestamp) ==
    [ NoPortfolioDoc EXCEPT !.exists      = TRUE,
                            !.currency    = Present(portfolio.currency),
                            !.years       = Present(portfolio.years),
                            !.investments = Present(portfolio.investments),
                            !.updatedAt   = Present(timestamp) ]

\* savePortfolio: set({currency, years, investments, updatedAt}, {merge: true})
SavePortfolioDoc(doc, portfolio, timestamp) ==
    [ doc EXCEPT !.exists      = TRUE,
                 !.currency    = Present(portfolio.currency),
                 !.years       = Present(portfolio.years),
                 !.investments = Present(portfolio.investments),
                 !.updatedAt   = Present(timestamp) ]

\* updatePortfolioForecast: set({lastForecastRunId, lastForecast,
\* lastForecastAt, updatedAt}, {merge: true})
UpdatePortfolioForecastDoc(doc, runId, forecast, timestamp) ==
    [ doc EXCEPT !.exists            = TRUE,
                 !.lastForecastRunId = Present(runId),
                 !.lastForecast      = Present(forecast),
                 !.lastForecastAt    = Present(forecast.generatedAt),
                 !.updatedAt         = Present(timestamp) ]

\* The ids under which wealthForecasts can hold a document: the uids, and
\* an id Firestore generates for doc() without an argument.
ForecastDocIds == Uids \cup {"generated-id"}

\* Mutant: the reference is made by doc() without the uid.
ForecastDocIdGenerated(uid) == "generated-id"

\* saveForecastRun: db.collection(FORECAST_COLLECTION).doc(uid), and
\* docRef.id, which it returns.
ForecastDocId(uid) == uid

\* saveForecastRun: set({uid, input, output, updatedAt}) without merge.
SaveForecastRunDoc(uid, input, output, timestamp) ==
    [ exists    |-> TRUE,
      uid       |-> Present(uid),
      input     |-> Present(input),
      output    |-> Present(output),
      updatedAt |-> Present(timestamp) ]

NoSettings == [currency |-> "", years |-> 0, investments |-> <<>>]

\* One committed write: who made it, which function, for which uid, with
\* which arguments.
WriteOf(caller, op, uid, portfolio, runId, forecast) ==
    [ caller    |-> caller,
      op        |-> op,
      uid       |-> uid,
      portfolio |-> portfolio,
      runId     |-> runId,
      forecast  |-> forecast ]

(***************************************************************************)
(* Inputs of the repository functions                                      *)
(***************************************************************************)
MaxWrites == 4

\* Pick<PortfolioData, "currency" | "years" | "investments">
PortfolioSettings ==
    { [currency |-> "INR", years |-> 15, investments |-> <<>>],
      [currency |-> "USD", years |-> 2, investments |-> <<AxisFund, NiftyEtf>>] }

\* Two forecasts of different runs.
CachedForecasts ==
    { BuildReturn(ForecastRequest(1, "INR", <<AxisFund>>),
                  <<AssumptionOf("inv-1", <<5000, 10000, 50000>>)>>, now) :
        now \in Instants }

\* savePortfolio(uid, portfolio), called on its own: the write commits.
SavePortfolio(uid, portfolio) ==
    /\ Len(writes) < MaxWrites
    /\ portfolios' = [portfolios EXCEPT ![uid] =
                          SavePortfolioDoc(@, portfolio, ServerTimestamp)]
    /\ writes' = Append(writes, WriteOf("client", "savePortfolio", uid,
                                        portfolio, "", NoForecast))
    /\ UNCHANGED <<forecasts, otherThanStore>>

\* updatePortfolioForecast(uid, runId, forecast), called on its own: the
\* write commits.
UpdatePortfolioForecast(uid, runId, forecast) ==
    /\ Len(writes) < MaxWrites
    /\ portfolios' = [portfolios EXCEPT ![uid] =
                          UpdatePortfolioForecastDoc(@, runId, forecast,
                                                     ServerTimestamp)]
    /\ writes' = Append(writes, WriteOf("client", "updatePortfolioForecast", uid,
                                        NoSettings, runId, forecast))
    /\ UNCHANGED <<forecasts, otherThanStore>>

InitStore ==
    /\ portfolios = [uid \in Uids |-> NoPortfolioDoc]
    /\ forecasts = [id \in ForecastDocIds |-> NoForecastDoc]
    /\ writes = <<>>

(***************************************************************************)
(* route.ts: POST /api/forecast.  Each run of the handler has its own      *)
(* position and locals; the runs share the two collections.                *)
(***************************************************************************)
Runs == {"run-a", "run-b"}

\* request.headers.get("Authorization"): null, or a string seen as its
\* first seven characters or fewer (scheme) and what follows them (rest).
NoHeader == [t |-> "null", scheme |-> "", rest |-> ""]

Header(scheme, rest) == [t |-> "string", scheme |-> scheme, rest |-> rest]

\* Mutant: the scheme is compared without regard to letter case.
StartsWithBearerAnyCase(header) ==
    header.t = "string" /\ header.scheme \in {"Bearer ", "bearer "}

\* authHeader?.startsWith("Bearer ")
StartsWithBearer(header) == header.t = "string" /\ header.scheme = "Bearer "

\* authHeader.slice(7).trim()
TokenOf(header) == header.rest

\* getFirebaseAdminAuth().verifyIdToken(token): the tokens it accepts, and
\* the uid it decodes from each.
ValidTokens == {"token-alice", "token-bob"}

DecodedUid(token) == IF token = "token-alice" THEN "alice" ELSE "bob"

UnauthorizedError == [message |-> <<"Unauthorized: missing token">>]

TokenError == [message |-> <<"Decoding Firebase ID token failed.">>]

BodySyntaxError == [message |-> <<"Unexpected end of JSON input">>]

RequestZodError == [message |-> <<"ZodError">>]

NoPositiveAmountError ==
    [message |-> <<"At least one investment must include a non-zero amount.">>]

StoreError == [message |-> <<"Firestore write failed">>]

\* msg.includes("Unauthorized"); of the texts of this model only the message
\* of verifyIdToken holds the word.
IncludesUnauthorized(message) ==
    \E i \in 1..Len(message) : message[i] = "Unauthorized: missing token"

NoResponse == [status |-> 0, error |-> <<>>, runId |-> "", forecast |-> NoForecast]

\* The catch block of route.ts 73-78.
ErrorResponse(error) ==
    [ status   |-> IF IncludesUnauthorized(error.message) THEN 401 ELSE 400,
      error    |-> error.message,
      runId    |-> "",
      forecast |-> NoForecast ]

\* NextResponse.json({ runId, forecast }, { status: 200 })
OkResponse(runId, forecast) ==
    [status |-> 200, error |-> <<>>, runId |-> runId, forecast |-> forecast]

(***************************************************************************)
(* requestSchema (zod) and the non-zero amount check                       *)
(***************************************************************************)
INVESTMENT_TYPES ==
    {"mutual_fund", "stock", "ppf", "nps", "fixed_deposit", "crypto", "other"}

CONTRIBUTION_FREQUENCIES == {"monthly", "yearly", "one_time"}

\* A JSON number n / d.
YearsValue(n, d) == [t |-> "number", n |-> n, d |-> d]

\* The length of a string, for the strings of this model.
StringLength(str) ==
    CASE str = ""  -> 0
      [] str = "A" -> 1
      [] OTHER     -> 2

InvestmentSchemaAccepts(inv) ==
    /\ StringLength(inv.id) >= 1
    /\ inv.type \in INVESTMENT_TYPES
    /\ StringLength(inv.name) >= 2
    /\ inv.contributionFrequency \in CONTRIBUTION_FREQUENCIES
    /\ inv.contributionAmount >= 0
    /\ inv.initialAmount >= 0

\* Mutant: years is not checked against 1..50.
RequestSchemaAcceptsAnyYears(body) ==
    /\ body.years.t = "number"
    /\ body.currency.t = "string" /\ StringLength(body.currency.s) >= 1
    /\ body.investments.t = "array"
    /\ Len(body.investments.items) >= 1
    /\ \A i \in 1..Len(body.investments.items) :
          InvestmentSchemaAccepts(body.investments.items[i])

RequestSchemaAccepts(body) ==
    /\ body.years.t = "number" /\ body.years.d = 1
    /\ body.years.n >= 1 /\ body.years.n <= 50
    /\ body.currency.t = "string" /\ StringLength(body.currency.s) >= 1
    /\ body.investments.t = "array"
    /\ Len(body.investments.items) >= 1
    /\ \A i \in 1..Len(body.investments.items) :
          InvestmentSchemaAccepts(body.investments.items[i])

\* requestSchema.parse(body) for an accepted body.
RequestSchemaParse(body) ==
    ForecastRequest(body.years.n, body.currency.s, body.investments.items)

\* parsed.investments.some((inv) => inv.initialAmount > 0 || inv.contributionAmount > 0)
HasPositiveAmount(parsed) ==
    \E i \in 1..Len(parsed.investments) :
        \/ parsed.investments[i].initialAmount > 0
        \/ parsed.investments[i].contributionAmount > 0

(***************************************************************************)
(* The research calls of one run (Promise.all, route.ts 55-57)             *)
(***************************************************************************)
\* fetchAssumptionsWithSearch was called and awaits the provider; count is
\* the number of requests it has sent.
PendingCall ==
    [state |-> "pending", count |-> 1, assumption |-> NoAssumption, error |-> NoError]

\* parsed.investments.map((inv) => fetchAssumptionsWithSearch(inv, parsed.currency))
StartCalls(parsed) == [i \in 1..Len(parsed.investments) |-> PendingCall]

ResolvedCall(call, assumption) ==
    [call EXCEPT !.state = "resolved", !.assumption = assumption]

\* Mutant: a call that failed sends its request again.
RejectedCallRetried(call, error) == [call EXCEPT !.count = @ + 1]

RejectedCall(call, error) == [call EXCEPT !.state = "rejected", !.error = error]

\* Mutant: the promise is fulfilled once no call is pending (allSettled).
PromiseAllSettled(calls) ==
    \A i \in 1..Len(calls) : calls[i].state # "pending"

\* Promise.all is fulfilled when every call has returned.
PromiseAllFulfilled(calls) ==
    \A i \in 1..Len(calls) : calls[i].state = "resolved"

\* Promise.all rejects as soon as one call has thrown.
PromiseAllRejected(calls) ==
    \E i \in 1..Len(calls) : calls[i].state = "rejected"

\* The array Promise.all yields: the assumptions the calls returned, in the
\* order of the investments.
CollectedAssumptions(calls) ==
    LET IsResolved(call) == call.state = "resolved"
        resolved == SelectSeq(calls, IsResolved)
    IN  [i \in 1..Len(resolved) |-> resolved[i].assumption]

(***************************************************************************)
(* Inputs of POST /api/forecast                                            *)
(***************************************************************************)
AliceHeader == Header("Bearer ", "token-alice")

Headers ==
    { NoHeader, AliceHeader, Header("Bearer ", "token-bob"),
      Header("Bearer ", "expired-token"), Header("bearer ", "token-alice"),
      Header("Basic ", "YWxpY2U6cGFzcw==") }

RequestBody(years, currency, investments) ==
    [ json        |-> TRUE,
      years       |-> years,
      currency    |-> currency,
      investments |-> [t |-> "array", items |-> investments] ]

\* A body request.json() rejects.
MalformedBody ==
    [ json        |-> FALSE,
      years       |-> Undefined,
      currency    |-> Undefined,
      investments |-> [t |-> "undefined", items |-> <<>>] ]

\* An investment with nothing held and nothing contributed.
EmptyHolding == Investment("inv-4", "Savings Account", "monthly", 0, 0)

TwoYears == YearsValue(2, 1)

ThreeFunds == RequestBody(TwoYears, Str("INR"), <<AxisFund, NiftyEtf, SmallDeposit>>)

ValidBodies ==
    { RequestBody(YearsValue(1, 1), Str("INR"), <<NiftyEtf>>),
      RequestBody(TwoYears, Str("INR"), <<AxisFund, NiftyEtf>>),
      ThreeFunds,
      RequestBody(TwoYears, Str("USD"), <<AxisFund, TwinOfAxis>>),
      RequestBody(TwoYears, Str("INR"), <<EmptyHolding, NiftyEtf>>) }

\* Bodies requestSchema rejects.
InvalidBodies ==
    { MalformedBody }
    \cup { [ThreeFunds EXCEPT !.years = years] :
             years \in { YearsValue(0, 1), YearsValue(51, 1), YearsValue(3, 2),
                         YearsValue(-2, 1), Str("2"), Undefined } }
    \cup { [ThreeFunds EXCEPT !.currency = currency] :
             currency \in { Str(""), Undefined } }
    \cup { [ThreeFunds EXCEPT !.investments = investments] :
             investments \in { [t |-> "array", items |-> <<>>],
                               [t |-> "undefined", items |-> <<>>] } }
    \cup { RequestBody(TwoYears, Str("INR"), <<NiftyEtf, investment>>) :
             investment \in { [AxisFund EXCEPT !.name = "A"],
                              [AxisFund EXCEPT !.name = ""],
                              [AxisFund EXCEPT !.id = ""],
                              [AxisFund EXCEPT !.type = "bond"],
                              [AxisFund EXCEPT !.contributionFrequency = "weekly"],
                              [AxisFund EXCEPT !.contributionAmount = -100],
                              [AxisFund EXCEPT !.initialAmount = -1] } }

\* Bodies requestSchema accepts in which no investment has an amount.
ZeroAmountBodies ==
    { RequestBody(TwoYears, Str("INR"), <<EmptyHolding>>),
      RequestBody(YearsValue(50, 1), Str("INR"),
                  <<EmptyHolding, [AxisFund EXCEPT !.contributionAmount = 0,
                                                   !.initialAmount = 0]>>) }

Bodies == ValidBodies \cup InvalidBodies \cup ZeroAmountBodies

NoHttpRequest == [header |-> NoHeader, body |-> MalformedBody]

\* What the provider answers to one research call: a payload without
\* history, a payload of zero rates, text that is not JSON, no text.
RouteTexts ==
    { [pre |-> <<>>, body |-> JsonBody(BasePayload), post |-> <<>>],
      [pre |-> <<>>,
       body |-> JsonBody(Payload(Num(0), Num(0), Num(0), JNull, JNull, JNull,
                                 JNull, JNull, OneSource)),
       post |-> <<>>],
      [pre |-> <<>>, body |-> GarbageBody, post |-> <<>>],
      EmptyText }

(***************************************************************************)
(* The steps of one run                                                    *)
(***************************************************************************)
\* The catch block: the run answers with the error.
Fails(r, error) ==
    /\ rpc' = [rpc EXCEPT ![r] = "responded"]
    /\ rresponse' = [rresponse EXCEPT ![r] = ErrorResponse(error)]

\* route.ts 33-34: the request arrives and verifyIdToken looks at the
\* header; without a Bearer header it throws at once.
PostArrives(r, header, body) ==
    /\ rpc[r] = "idle"
    /\ rrequest' = [rrequest EXCEPT ![r] = [header |-> header, body |-> body]]
    /\ IF ~StartsWithBearer(header)
       THEN Fails(r, UnauthorizedError)
       ELSE /\ rpc' = [rpc EXCEPT ![r] = "verifying"]
            /\ UNCHANGED rresponse
    /\ UNCHANGED <<ruid, rcalls, rbuilds, rforecast, rrunId, storeVars, otherThanRoute>>

\* route.ts 34-57: Firebase answers on the token; with a uid the body is
\* read, validated and checked for a non-zero amount, and one research call
\* per investment is started.
TokenChecked(r) ==
    /\ rpc[r] = "verifying"
    /\ LET token == TokenOf(rrequest[r].header)
           body  == rrequest[r].body
       IN  IF token \notin ValidTokens
           THEN Fails(r, TokenError) /\ UNCHANGED <<ruid, rcalls>>
           ELSE /\ ruid' = [ruid EXCEPT ![r] = DecodedUid(token)]
                /\ IF ~body.json
                   THEN Fails(r, BodySyntaxError) /\ UNCHANGED rcalls
                   ELSE IF ~RequestSchemaAccepts(body)
                   THEN Fails(r, RequestZodError) /\ UNCHANGED rcalls
                   ELSE IF ~HasPositiveAmount(RequestSchemaParse(body))
                   THEN Fails(r, NoPositiveAmountError) /\ UNCHANGED rcalls
                   ELSE /\ rpc' = [rpc EXCEPT ![r] = "researching"]
                        /\ rcalls' = [rcalls EXCEPT ![r] =
                                         StartCalls(RequestSchemaParse(body))]
                        /\ UNCHANGED rresponse
    /\ UNCHANGED <<rrequest, rbuilds, rforecast, rrunId, storeVars, otherThanRoute>>

\* The i-th research call of the run ends with the given outcome.  While
\* the handler awaits Promise.all (route.ts 55-66): the first call that
\* throws sends the handler to its catch block; the last call that returns
\* lets it run buildForecast and start saveForecastRun.  After the handler
\* has answered, the outcome of a call is dropped.
ResearchCompletes(r, i, outcome, now) ==
    /\ rpc[r] \in {"researching", "responded"}
    /\ i \in 1..Len(rcalls[r])
    /\ rcalls[r][i].state = "pending"
    /\ LET calls == [rcalls[r] EXCEPT ![i] =
                        IF outcome.threw THEN RejectedCall(@, outcome.error)
                        ELSE ResolvedCall(@, outcome.assumption)]
       IN  /\ rcalls' = [rcalls EXCEPT ![r] = calls]
           /\ IF rpc[r] # "researching"
              THEN UNCHANGED <<rpc, rbuilds, rforecast, rresponse>>
              ELSE IF PromiseAllFulfilled(calls)
              THEN LET assumptions == CollectedAssumptions(calls)
                       built == BuildForecast(RequestSchemaParse(rrequest[r].body),
                                              assumptions, now)
                   IN  /\ rbuilds' = [rbuilds EXCEPT ![r] = Append(@, assumptions)]
                       /\ IF built.threw
                          THEN Fails(r, built.error) /\ UNCHANGED rforecast
                          ELSE /\ rpc' = [rpc EXCEPT ![r] = "saving"]
                               /\ rforecast' = [rforecast EXCEPT ![r] = built.forecast]
                               /\ UNCHANGED rresponse
              ELSE IF PromiseAllRejected(calls)
              THEN Fails(r, outcome.error) /\ UNCHANGED <<rbuilds, rforecast>>
              ELSE UNCHANGED <<rpc, rbuilds, rforecast, rresponse>>
    /\ UNCHANGED <<rrequest, ruid, rrunId, storeVars, otherThanRoute>>

\* The provider answers the i-th call with a text.
ResearchResponds(r, i, text, now) ==
    /\ i \in 1..Len(rcalls[r])
    /\ ResearchCompletes(r, i,
           FetchOutcome(rrequest[r].body.investments.items[i], text), now)

\* The request of the i-th call fails in transport.
ResearchTransportFails(r, i) ==
    ResearchCompletes(r, i,
        [threw |-> TRUE, error |-> TransportError, assumption |-> NoAssumption], "")

\* route.ts 66-70: the write of saveForecastRun commits; it returns the
\* document id, which is the uid, and updatePortfolioForecast is started.
SaveRunCommits(r) ==
    /\ rpc[r] = "saving"
    /\ Len(writes) < MaxWrites
    /\ forecasts' = [forecasts EXCEPT ![ForecastDocId(ruid[r])] =
                        SaveForecastRunDoc(ruid[r],
                                           RequestSchemaParse(rrequest[r].body),
                                           rforecast[r], ServerTimestamp)]
    /\ writes' = Append(writes, WriteOf(r, "saveForecastRun", ruid[r],
                                        NoSettings, "", rforecast[r]))
    /\ rrunId' = [rrunId EXCEPT ![r] = ForecastDocId(ruid[r])]
    /\ rpc' = [rpc EXCEPT ![r] = "caching"]
    /\ UNCHANGED <<portfolios, rrequest, ruid, rcalls, rbuilds, rforecast,
                   rresponse, otherThanRoute>>

\* The write of saveForecastRun fails: the handler answers with the error.
SaveRunFails(r) ==
    /\ rpc[r] = "saving"
    /\ Fails(r, StoreError)
    /\ UNCHANGED <<rrequest, ruid, rcalls, rbuilds, rforecast, rrunId, storeVars,
                   otherThanRoute>>

\* route.ts 70-72: the write of updatePortfolioForecast commits and the
\* handler answers 200 with the run id and the forecast.
CacheCommits(r) ==
    /\ rpc[r] = "caching"
    /\ Len(writes) < MaxWrites
    /\ portfolios' = [portfolios EXCEPT ![ruid[r]] =
                         UpdatePortfolioForecastDoc(@, rrunId[r], rforecast[r],
                                                    ServerTimestamp)]
    /\ writes' = Append(writes, WriteOf(r, "updatePortfolioForecast", ruid[r],
                                        NoSettings, rrunId[r], rforecast[r]))
    /\ rpc' = [rpc EXCEPT ![r] = "responded"]
    /\ rresponse' = [rresponse EXCEPT ![r] = OkResponse(rrunId[r], rforecast[r])]
    /\ UNCHANGED <<forecasts, rrequest, ruid, rcalls, rbuilds, rforecast, rrunId,
                   otherThanRoute>>

\* The write of updatePortfolioForecast fails: the handler answers with the
\* error.
CacheFails(r) ==
    /\ rpc[r] = "caching"
    /\ Fails(r, StoreError)
    /\ UNCHANGED <<rrequest, ruid, rcalls, rbuilds, rforecast, rrunId, storeVars,
                   otherThanRoute>>

(***************************************************************************)
(* planner-store.tsx: the PlannerProvider component with the two portfolio *)
(* handlers of route.ts it talks to.  A value that can be null is <<>> for *)
(* null and <<value>> otherwise, as in the documents.  A handler of the    *)
(* component runs to its end or to its next await; React then renders once *)
(* with all the state it set, and runs the effects whose dependencies      *)
(* changed, in the order of their declaration.                             *)
(***************************************************************************)
\* v.toUpperCase(), for the strings of this model.
ToUpperCase(str) ==
    CASE str = "usd"   -> "USD"
      [] str = "rupee" -> "RUPEE"
      [] OTHER         -> str

\* v.slice(0, 3), for the strings of this model.
Slice3(str) == IF str = "RUPEE" THEN "RUP" ELSE str

\* name.trim(), for the strings of this model.
Trim(str) == IF str \in {" ", "  "} THEN "" ELSE str

\* defaultPortfolio() of the portfolio route.
DefaultPortfolio ==
    [ currency          |-> "INR",
      years             |-> 15,
      investments       |-> <<>>,
      lastForecast      |-> Absent,
      lastForecastRunId |-> Absent,
      lastForecastAt    |-> Absent ]

\* getPortfolio(uid): null without a document, else the document with its
\* defaults.
GetPortfolio(doc) ==
    IF ~doc.exists THEN Absent
    ELSE Present(
        [ currency          |-> IF doc.currency \in {Absent, Present("")}
                                THEN "INR" ELSE doc.currency[1],
          years             |-> IF doc.years \in {Absent, Present(0)}
                                THEN 15 ELSE doc.years[1],
          investments       |-> IF doc.investments = Absent
                                THEN <<>> ELSE doc.investments[1],
          lastForecast      |-> doc.lastForecast,
          lastForecastRunId |-> doc.lastForecastRunId,
          lastForecastAt    |-> doc.lastForecastAt ])

\* GET /api/portfolio: (await getPortfolio(uid)) ?? defaultPortfolio()
PortfolioGet(doc) ==
    IF GetPortfolio(doc) = Absent THEN DefaultPortfolio ELSE GetPortfolio(doc)[1]

\* portfolioSchema of PUT /api/portfolio: as requestSchema, but the list of
\* investments can be empty and a name can have any length.
PortfolioSchemaAccepts(body) ==
    /\ StringLength(body.currency) >= 1
    /\ body.years \in 1..50
    /\ \A i \in 1..Len(body.investments) :
          LET inv == body.investments[i]
          IN  /\ StringLength(inv.id) >= 1
              /\ inv.type \in INVESTMENT_TYPES
              /\ inv.contributionFrequency \in CONTRIBUTION_FREQUENCIES
              /\ inv.contributionAmount >= 0
              /\ inv.initialAmount >= 0

\* normalizePortfolio(data)
NormalizePortfolio(data) ==
    [ currency    |-> Slice3(ToUpperCase(IF data.currency = "" THEN "INR"
                                         ELSE data.currency)),
      years       |-> Min(Max(IF data.years = 0 THEN 15 ELSE data.years, 1), 50),
      investments |-> data.investments ]

\* The UTC calendar date and minute of the day an ISO string denotes.
IsoParts(iso) ==
    CASE iso = "2026-11-01T09:00:00.000Z" ->
             [year |-> 2026, month |-> 10, date |-> 1, minutes |-> 540]
      [] iso = "2026-11-02T09:00:00.000Z" ->
             [year |-> 2026, month |-> 10, date |-> 2, minutes |-> 540]
      [] iso = "2026-10-31T20:00:00.000Z" ->
             [year |-> 2026, month |-> 9, date |-> 31, minutes |-> 1200]
      [] iso = "2026-10-01T09:00:00.000Z" ->
             [year |-> 2026, month |-> 9, date |-> 1, minutes |-> 540]
      [] iso = "2025-11-01T09:00:00.000Z" ->
             [year |-> 2025, month |-> 10, date |-> 1, minutes |-> 540]

\* The days of a month of a year that is no leap year (getMonth() counts
\* from 0).
DaysInMonth(month) ==
    CASE month = 1 -> 28
      [] month \in {3, 5, 8, 10} -> 30
      [] OTHER -> 31

\* new Date(iso), read with getFullYear(), getMonth() and getDate() by a
\* browser in the zone UTC+05:30.
LocalDate(iso) ==
    LET utc == IsoParts(iso)
    IN  IF utc.minutes + 330 < 1440
        THEN [year |-> utc.year, month |-> utc.month, date |-> utc.date]
        ELSE IF utc.date < DaysInMonth(utc.month)
        THEN [year |-> utc.year, month |-> utc.month, date |-> utc.date + 1]
        ELSE IF utc.month < 11
        THEN [year |-> utc.year, month |-> utc.month + 1, date |-> 1]
        ELSE [year |-> utc.year + 1, month |-> 0, date |-> 1]

\* Mutant: only the day of the month is compared.
NeedsAutoRegenDateOnly(lastForecastAt, now) ==
    IF lastForecastAt \in {Absent, Present("")} THEN FALSE
    ELSE LocalDate(lastForecastAt[1]).date # LocalDate(now).date

\* needsAutoRegen(lastForecastAt), with new Date() being the instant now.
NeedsAutoRegen(lastForecastAt, now) ==
    IF lastForecastAt \in {Absent, Present("")} THEN FALSE
    ELSE LET last  == LocalDate(lastForecastAt[1])
             today == LocalDate(now)
         IN  \/ last.year # today.year
             \/ last.month # today.month
             \/ last.date # today.date

\* The useState initial values and the refs of PlannerProvider.
InitialPlanner ==
    [ currency            |-> "INR",
      years               |-> 15,
      investments         |-> <<>>,
      runId               |-> Absent,
      forecast            |-> Absent,
      forecastGeneratedAt |-> Absent,
      isGenerating        |-> FALSE,
      isLoadingPortfolio  |-> FALSE,
      error               |-> Absent,
      pendingAutoRegen    |-> FALSE,
      hasLoadedRef        |-> FALSE,
      saveTimeoutRef      |-> "null" ]

\* getIdToken(): null without a user, else the user's token.
GetIdToken(currentUser) ==
    IF currentUser = "" THEN Absent
    ELSE Present(IF currentUser = "alice" THEN "token-alice" ELSE "token-bob")

(***************************************************************************)
(* The effects and generateForecast, as functions of what a handler works  *)
(* on: w.user, w.planner, w.timers, w.posts, w.owner, and w.calls, which   *)
(* tells what each call of generateForecast made by the handler came to.   *)
(***************************************************************************)
Work ==
    [ user    |-> user,
      planner |-> planner,
      timers  |-> timers,
      posts   |-> posts,
      owner   |-> owner,
      calls   |-> <<>> ]

\* { currency, years, investments } of a state of the planner.
SettingsIn(state) ==
    [ currency    |-> state.currency,
      years       |-> state.years,
      investments |-> state.investments ]

\* if (saveTimeoutRef.current) clearTimeout(saveTimeoutRef.current): the
\* ref names the timer set last, which is pending ("live") or is not
\* ("stale").
ClearTimeout(w) ==
    IF w.planner.saveTimeoutRef = "live"
    THEN [w EXCEPT !.timers = SubSeq(@, 1, Len(@) - 1),
                   !.planner.saveTimeoutRef = "stale"]
    ELSE w

\* The callback given to setTimeout, with the state its closure holds.
SaveCallback(w) ==
    [ delay    |-> 350,
      body     |-> SettingsIn(w.planner),
      settings |-> w.owner.settings ]

\* The auto-save effect (planner-store.tsx 143-162) after a render in
\* which currency, years or investments changed: the cleanup of its last
\* run, then its body.
AutoSaveEffect(w, changed) ==
    IF ~changed THEN w
    ELSE LET cleaned == ClearTimeout(w)
         IN  IF ~cleaned.planner.hasLoadedRef THEN cleaned
             ELSE LET cleared == ClearTimeout(cleaned)
                  IN  [cleared EXCEPT !.timers = Append(@, SaveCallback(cleared)),
                                      !.planner.saveTimeoutRef = "live"]

\* investments.filter((i) => i.name.trim().length > 0)
ValidInvestments(investments) ==
    LET Named(i) == StringLength(Trim(i.name)) > 0
    IN  SelectSeq(investments, Named)

\* valid.some((i) => i.initialAmount > 0 || i.contributionAmount > 0)
SomeAmount(valid) ==
    \E k \in 1..Len(valid) :
        valid[k].initialAmount > 0 \/ valid[k].contributionAmount > 0

\* generateForecast (planner-store.tsx 197-220), up to the request it
\* sends.
GenerateForecast(w) ==
    LET cleared == [w EXCEPT !.planner.error = Absent,
                             !.planner.runId = Absent,
                             !.planner.forecast = Absent,
                             !.planner.forecastGeneratedAt = Absent,
                             !.owner.forecast = ""]
        valid   == ValidInvestments(w.planner.investments)
    IN  IF valid = <<>>
        THEN [cleared EXCEPT !.planner.error =
                                 Present("Add at least one investment with a name."),
                             !.calls = Append(@, "rejected")]
        ELSE IF ~SomeAmount(valid)
        THEN [cleared EXCEPT !.planner.error =
                  Present("At least one investment must include a non-zero amount."),
                             !.calls = Append(@, "rejected")]
        ELSE [cleared EXCEPT !.planner.isGenerating = TRUE,
                             !.posts = Append(@,
                                 [ uid     |-> w.user,
                                   token   |-> GetIdToken(w.user),
                                   payload |-> [ currency    |-> w.planner.currency,
                                                 years       |-> w.planner.years,
                                                 investments |-> valid ] ]),
                             !.calls = Append(@, "sent")]

\* The auto-regen effect (planner-store.tsx 135-140) after a render in
\* which pendingAutoRegen, isLoadingPortfolio or investments changed.
AutoRegenEffect(w, changed) ==
    IF /\ changed
       /\ w.planner.pendingAutoRegen
       /\ ~w.planner.isLoadingPortfolio
       /\ w.planner.investments # <<>>
    THEN GenerateForecast([w EXCEPT !.planner.pendingAutoRegen = FALSE])
    ELSE w

\* The render that follows a handler and the effects it runs: before is
\* the state of the last render, investmentsSet tells whether the handler
\* gave setInvestments a new array.
Render(before, w, investmentsSet) ==
    LET regen == AutoRegenEffect(w,
                     \/ before.pendingAutoRegen # w.planner.pendingAutoRegen
                     \/ before.isLoadingPortfolio # w.planner.isLoadingPortfolio
                     \/ investmentsSet)
    IN  AutoSaveEffect(regen,
            \/ before.currency # w.planner.currency
            \/ before.years # w.planner.years
            \/ investmentsSet)

(***************************************************************************)
(* The handlers of the planner                                             *)
(***************************************************************************)
MaxUserActions == 4

Remove(seq, i) == SubSeq(seq, 1, i - 1) \o SubSeq(seq, i + 1, Len(seq))

\* What a handler leaves behind.
Becomes(w) ==
    /\ planner' = w.planner
    /\ timers' = w.timers
    /\ posts' = w.posts
    /\ owner' = w.owner

UserActs ==
    /\ acts < MaxUserActions
    /\ acts' = acts + 1

\* The load effect (planner-store.tsx 77-132) when useAuth().user changes
\* to newUser: without a user the state is reset; with one, loadPortfolio
\* is started and sends its GET.
AuthStateChanged(newUser) ==
    /\ newUser # user
    /\ newUser = "" \/ user = ""
    /\ UserActs
    /\ user' = newUser
    /\ LET reset  == [Work EXCEPT !.user = newUser,
                                  !.planner.currency = "INR",
                                  !.planner.years = 15,
                                  !.planner.investments = <<>>,
                                  !.planner.forecast = Absent,
                                  !.planner.forecastGeneratedAt = Absent,
                                  !.planner.runId = Absent,
                                  !.planner.error = Absent,
                                  !.planner.hasLoadedRef = FALSE,
                                  !.planner.isLoadingPortfolio = FALSE,
                                  !.owner = [settings |-> "", forecast |-> ""]]
           starts == [Work EXCEPT !.user = newUser,
                                  !.planner.hasLoadedRef = FALSE,
                                  !.planner.isLoadingPortfolio = TRUE]
           after  == IF newUser = "" THEN Render(planner, reset, TRUE)
                     ELSE Render(planner, starts, FALSE)
       IN  /\ Becomes(after)
           /\ loads' = IF newUser = "" THEN loads
                       ELSE Append(loads, [ uid   |-> newUser,
                                            token |-> GetIdToken(newUser) ])
           /\ event' = [kind |-> "auth", calls |-> after.calls]
    /\ UNCHANGED <<puts, storeVars, otherThanPlanner>>

\* loadPortfolio (planner-store.tsx 94-128) from the response of its GET
\* on: the route answers with the stored portfolio (ok) or the request
\* fails; now is new Date() at that time.
LoadResponds(i, ok, now) ==
    /\ i \in 1..Len(loads)
    /\ loads' = Remove(loads, i)
    /\ LET request    == loads[i]
           succeeds   == ok /\ request.token # Absent
           raw        == PortfolioGet(portfolios[request.uid])
           normalized == NormalizePortfolio(raw)
           loaded     == [Work EXCEPT
                            !.planner.currency = normalized.currency,
                            !.planner.years = normalized.years,
                            !.planner.investments = normalized.investments,
                            !.planner.forecast =
                                IF raw.lastForecast # Absent
                                THEN raw.lastForecast ELSE @,
                            !.planner.runId =
                                IF raw.lastForecast # Absent
                                THEN raw.lastForecastRunId ELSE @,
                            !.planner.forecastGeneratedAt =
                                IF raw.lastForecast # Absent
                                THEN raw.lastForecastAt ELSE @,
                            !.planner.pendingAutoRegen =
                                IF /\ NeedsAutoRegen(raw.lastForecastAt, now)
                                   /\ Len(normalized.investments) > 0
                                THEN TRUE ELSE @,
                            !.owner.settings = request.uid,
                            !.owner.forecast =
                                IF raw.lastForecast # Absent THEN request.uid ELSE @]
           failed     == [Work EXCEPT
                            !.planner.error = Present("Failed to load portfolio")]
           finally    == [(IF succeeds THEN loaded ELSE failed) EXCEPT
                            !.planner.hasLoadedRef = TRUE,
                            !.planner.isLoadingPortfolio = FALSE]
           after      == Render(planner, finally, succeeds)
       IN  /\ Becomes(after)
           /\ event' = [ kind           |-> "load",
                         uid            |-> request.uid,
                         ok             |-> succeeds,
                         lastForecastAt |-> raw.lastForecastAt,
                         investments    |-> normalized.investments,
                         now            |-> now,
                         calls          |-> after.calls ]
    /\ UNCHANGED <<user, puts, acts, storeVars, otherThanPlanner>>

\* An edit made through the context: setState is the state the setter
\* leaves, investmentsSet tells whether it gave setInvestments a new array.
Edits(state, investmentsSet) ==
    /\ user # ""
    /\ UserActs
    /\ LET after == Render(planner, [Work EXCEPT !.planner = state], investmentsSet)
       IN  /\ Becomes(after)
           /\ event' = [kind |-> "edit", calls |-> after.calls]
    /\ UNCHANGED <<user, loads, puts, storeVars, otherThanPlanner>>

\* setCurrency(v)
SetCurrency(v) ==
    Edits([planner EXCEPT !.currency = Slice3(ToUpperCase(v))], FALSE)

\* setYears(v), v being a number that is finite or is not.
SetYears(finite, v) ==
    Edits([planner EXCEPT !.years = IF finite THEN Min(Max(v, 1), 50) ELSE 15],
          FALSE)

\* addInvestment(inv)
AddInvestment(inv) ==
    Edits([planner EXCEPT !.investments = Append(@, inv)], TRUE)

\* removeInvestment(id)
RemoveInvestment(id) ==
    LET Other(i) == i.id # id
    IN  Edits([planner EXCEPT !.investments = SelectSeq(@, Other)], TRUE)

\* updateInvestment(id, patch)
UpdateInvestment(id, patch) ==
    LET Patched(i) ==
            IF i.id = id
            THEN [f \in DOMAIN i |-> IF f \in DOMAIN patch THEN patch[f] ELSE i[f]]
            ELSE i
    IN  Edits([planner EXCEPT !.investments =
                                  [k \in 1..Len(@) |-> Patched(@[k])]],
              TRUE)

\* The Generate button of the wealth page (page.tsx 724-726), which is
\* disabled while a forecast is generated, while the portfolio loads and
\* without investments: generateForecast() is called.
GenerateClicked ==
    /\ user # ""
    /\ ~planner.isGenerating
    /\ ~planner.isLoadingPortfolio
    /\ planner.investments # <<>>
    /\ UserActs
    /\ LET after == Render(planner, GenerateForecast(Work), FALSE)
       IN  /\ Becomes(after)
           /\ event' = [kind |-> "generate", calls |-> after.calls]
    /\ UNCHANGED <<user, loads, puts, storeVars, otherThanPlanner>>

\* What POST /api/forecast answers a request with when its run succeeds at
\* the instant now: of the ForecastResponse the planner reads generatedAt
\* and keeps the rest as it came, so the projections are left out here.
ServedForecast(payload, now) ==
    [ generatedAt     |-> now,
      currency        |-> payload.currency,
      assumptions     |-> <<>>,
      projections     |-> <<>>,
      totalProjection |-> <<>> ]

\* generateForecast (planner-store.tsx 222-232) from the response of its
\* POST on.  The run of the route is taken as one step here: it answers 401
\* without a token and 400 when requestSchema rejects the payload or when
\* the run fails (not ok); else it commits its two writes and answers 200.
GenerateResponds(i, ok, now) ==
    /\ i \in 1..Len(posts)
    /\ LET request  == posts[i]
           body     == RequestBody(YearsValue(request.payload.years, 1),
                                   Str(request.payload.currency),
                                   request.payload.investments)
           succeeds == /\ ok
                       /\ request.token # Absent
                       /\ RequestSchemaAccepts(body)
           uid      == IF request.token = Absent THEN ""
                       ELSE DecodedUid(request.token[1])
           forecast == ServedForecast(request.payload, now)
           message  == IF request.token = Absent
                       THEN UnauthorizedError.message[1]
                       ELSE IF ~RequestSchemaAccepts(body)
                       THEN RequestZodError.message[1]
                       ELSE TransportError.message[1]
           answered == [Work EXCEPT !.posts = Remove(@, i)]
           finally  ==
               IF succeeds
               THEN [answered EXCEPT
                       !.planner.forecast = Present(forecast),
                       !.planner.runId = Present(ForecastDocId(uid)),
                       !.planner.forecastGeneratedAt = Present(forecast.generatedAt),
                       !.planner.isGenerating = FALSE,
                       !.owner.forecast = request.uid]
               ELSE [answered EXCEPT
                       !.planner.error = Present(message),
                       !.planner.isGenerating = FALSE]
           after    == Render(planner, finally, FALSE)
       IN  /\ Becomes(after)
           /\ IF succeeds
              THEN /\ forecasts' = [forecasts EXCEPT ![ForecastDocId(uid)] =
                                       SaveForecastRunDoc(uid, request.payload,
                                                          forecast, ServerTimestamp)]
                   /\ portfolios' = [portfolios EXCEPT ![uid] =
                                        UpdatePortfolioForecastDoc(@, ForecastDocId(uid),
                                            forecast, ServerTimestamp + 1)]
                   /\ writes' = writes \o
                        << WriteOf("planner", "saveForecastRun", uid, NoSettings,
                                   "", forecast),
                           WriteOf("planner", "updatePortfolioForecast", uid,
                                   NoSettings, ForecastDocId(uid), forecast) >>
              ELSE UNCHANGED storeVars
           /\ event' = [ kind     |-> "generated",
                         calls    |-> after.calls,
                         uid      |-> request.uid,
                         ok       |-> succeeds,
                         runId    |-> ForecastDocId(uid),
                         forecast |-> forecast ]
    /\ UNCHANGED <<user, loads, puts, acts, otherThanPlanner>>

\* The callback of the k-th pending timer runs (planner-store.tsx 147-158):
\* without a token it returns; with one it sends the PUT, which the route
\* saves when portfolioSchema accepts the body.
TimerFires(k) ==
    /\ k \in 1..Len(timers)
    /\ LET callback == timers[k]
           token    == GetIdToken(user)
       IN  /\ Becomes([Work EXCEPT
                         !.timers = Remove(@, k),
                         !.planner.saveTimeoutRef =
                             IF k = Len(timers) /\ @ = "live" THEN "stale" ELSE @])
           /\ event' = [ kind  |-> "save",
                         calls |-> <<>>,
                         sent  |-> token # Absent,
                         body  |-> callback.body ]
           /\ IF token = Absent
              THEN UNCHANGED <<puts, storeVars>>
              ELSE /\ puts' = Append(puts, [ uid      |-> DecodedUid(token[1]),
                                             body     |-> callback.body,
                                             settings |-> callback.settings ])
                   /\ IF PortfolioSchemaAccepts(callback.body)
                      THEN /\ portfolios' = [portfolios EXCEPT ![DecodedUid(token[1])] =
                                                SavePortfolioDoc(@, callback.body,
                                                                 ServerTimestamp)]
                           /\ writes' = Append(writes,
                                  WriteOf("planner", "savePortfolio",
                                          DecodedUid(token[1]), callback.body,
                                          "", NoForecast))
                           /\ UNCHANGED forecasts
                      ELSE UNCHANGED storeVars
    /\ UNCHANGED <<user, loads, acts, otherThanPlanner>>

\* The component is mounted and no user is signed in.
InitPlanner ==
    /\ user = ""
    /\ planner = InitialPlanner
    /\ timers = <<>>
    /\ loads = <<>>
    /\ posts = <<>>
    /\ owner = [settings |-> "", forecast |-> ""]
    /\ puts = <<>>
    /\ event = [kind |-> "mount", calls |-> <<>>]
    /\ acts = 0

InitRoute ==
    /\ rpc = [r \in Runs |-> "idle"]
    /\ rrequest = [r \in Runs |-> NoHttpRequest]
    /\ ruid = [r \in Runs |-> ""]
    /\ rcalls = [r \in Runs |-> <<>>]
    /\ rbuilds = [r \in Runs |-> <<>>]
    /\ rforecast = [r \in Runs |-> NoForecast]
    /\ rrunId = [r \in Runs |-> ""]
    /\ rresponse = [r \in Runs |-> NoResponse]

Init ==
    InitFetch /\ InitProject /\ InitBuild /\ InitStore /\ InitRoute /\ InitPlanner

FetchResponds ==
    fpc = "awaiting" /\ \E text \in ResponseTexts : FetchResponse(text)

NextFetch ==
    \/ \E investment \in FetchInvestments : FetchCall(investment)
    \/ FetchTransportFailure
    \/ FetchResponds

SpecFetch == Init /\ [][NextFetch]_vars

ProjectCalls ==
    ppc = "idle" /\ \E input \in ProjectionInputs : ProjectCall(input)

NextProject ==
    \/ ProjectCalls
    \/ ProjectDone

SpecProject == Init /\ [][NextProject]_vars

BuildCalls ==
    /\ bpc = "idle"
    /\ \E input \in BuildInputs, now \in Instants :
          BuildCall(input.request, input.assumptions, now)

NextBuild ==
    \/ BuildCalls
    \/ BuildDone

SpecBuild == Init /\ [][NextBuild]_vars

NextStore ==
    \/ \E uid \in Uids, portfolio \in PortfolioSettings : SavePortfolio(uid, portfolio)
    \/ \E uid \in Uids, forecast \in CachedForecasts :
          UpdatePortfolioForecast(uid, uid, forecast)

SpecStore == Init /\ [][NextStore]_vars

\* A first run with any request; then, once it has answered, a second run
\* of the same user with a request the handler accepts.
FirstRunArrives ==
    /\ rpc["run-a"] = "idle"
    /\ \E header \in Headers, body \in Bodies : PostArrives("run-a", header, body)

SecondRunArrives ==
    /\ rpc["run-a"] = "responded"
    /\ rpc["run-b"] = "idle"
    /\ \E body \in { RequestBody(TwoYears, Str("INR"), <<AxisFund, NiftyEtf>>) } :
          PostArrives("run-b", AliceHeader, body)

ResearchEnds(r) ==
    /\ rpc[r] \in {"researching", "responded"}
    /\ \E i \in 1..Len(rcalls[r]) :
          \/ \E text \in RouteTexts, now \in Instants : ResearchResponds(r, i, text, now)
          \/ ResearchTransportFails(r, i)

NextRoute ==
    \/ FirstRunArrives
    \/ SecondRunArrives
    \/ \E r \in Runs : TokenChecked(r)
    \/ \E r \in Runs : ResearchEnds(r)
    \/ \E r \in Runs : SaveRunCommits(r)
    \/ \E r \in Runs : SaveRunFails(r)
    \/ \E r \in Runs : CacheCommits(r)
    \/ \E r \in Runs : CacheFails(r)

SpecRoute == Init /\ [][NextRoute]_vars

\* Two requests of the same user in the same time: each run arrives when
\* it likes, with a request the handler accepts.
ConcurrentRunArrives ==
    \E r \in Runs :
        /\ rpc[r] = "idle"
        /\ \E body \in { RequestBody(YearsValue(1, 1), Str("INR"), <<NiftyEtf>>),
                          RequestBody(TwoYears, Str("INR"), <<AxisFund, NiftyEtf>>) } :
              PostArrives(r, AliceHeader, body)

NextConcurrent ==
    \/ ConcurrentRunArrives
    \/ \E r \in Runs : TokenChecked(r)
    \/ \E r \in Runs : ResearchEnds(r)
    \/ \E r \in Runs : SaveRunCommits(r)
    \/ \E r \in Runs : SaveRunFails(r)
    \/ \E r \in Runs : CacheCommits(r)
    \/ \E r \in Runs : CacheFails(r)

SpecConcurrent == Init /\ [][NextConcurrent]_vars

(***************************************************************************)
(* A session of the planner: the documents Firestore holds when the page   *)
(* is opened, and what the user, the network and the timers then do.       *)
(***************************************************************************)
\* A portfolio document as savePortfolio leaves it, and as
\* updatePortfolioForecast leaves it after a run at the instant at.
SettingsDoc(settings) == SavePortfolioDoc(NoPortfolioDoc, settings, 1)

ForecastDoc(uid, settings, at) ==
    UpdatePortfolioForecastDoc(SettingsDoc(settings), uid,
                               ServedForecast(settings, at), 2)

LastForecastInstants ==
    { "2026-11-01T09:00:00.000Z", "2026-11-02T09:00:00.000Z",
      "2026-10-31T20:00:00.000Z", "2026-10-01T09:00:00.000Z",
      "2025-11-01T09:00:00.000Z" }

\* The stored settings of alice: one fund; nothing; a holding without
\* amounts.
AliceSettings == [currency |-> "INR", years |-> 15, investments |-> <<AxisFund>>]

AliceDocs ==
    { NoPortfolioDoc, SettingsDoc(AliceSettings) }
    \cup { ForecastDoc("alice", AliceSettings, at) : at \in LastForecastInstants }
    \cup { ForecastDoc("alice", [AliceSettings EXCEPT !.investments = investments],
                       "2026-10-01T09:00:00.000Z") :
             investments \in { <<>>, <<EmptyHolding>> } }

\* The document of bob, saved by a client that does not normalise.
BobDoc ==
    ForecastDoc("bob",
                [currency |-> "usd", years |-> 2, investments |-> <<SmallDeposit>>],
                "2026-11-01T09:00:00.000Z")

InitSession ==
    /\ InitFetch /\ InitProject /\ InitBuild /\ InitRoute /\ InitPlanner
    /\ \E doc \in AliceDocs : portfolios = [uid \in Uids |->
                                             IF uid = "alice" THEN doc ELSE BobDoc]
    /\ forecasts = [id \in ForecastDocIds |-> NoForecastDoc]
    /\ writes = <<>>

UserEdits ==
    \/ SetCurrency("usd")
    \/ SetYears(TRUE, 60)
    \/ AddInvestment(NiftyEtf)
    \/ RemoveInvestment("inv-1")
    \/ UpdateInvestment("inv-1", [name |-> " "])

NextSession ==
    \/ \E newUser \in Uids \cup {""} : AuthStateChanged(newUser)
    \/ \E i \in 1..Len(loads), ok \in BOOLEAN, now \in Instants : LoadResponds(i, ok, now)
    \/ UserEdits
    \/ GenerateClicked
    \/ \E i \in 1..Len(posts), ok \in BOOLEAN, now \in Instants :
          GenerateResponds(i, ok, now)
    \/ \E k \in 1..Len(timers) : TimerFires(k)

SpecSession == InitSession /\ [][NextSession]_vars

(***************************************************************************)
(* Vocabulary of the properties                                            *)
(***************************************************************************)
Returned == fpc = "returned"

RawPayload == TextOrBraces(ftext).body.value

RawConservative == RawPayload.conservativeAnnualReturnPct.n

RawExpected == RawPayload.expectedAnnualReturnPct.n

RawAggressive == RawPayload.aggressiveAnnualReturnPct.n

ReturnedRates ==
    << fresult.conservativeAnnualReturnPct, fresult.expectedAnnualReturnPct,
       fresult.aggressiveAnnualReturnPct >>

\* r (hundredths of a percent) is num / den rounded to the nearest hundredth,
\* ties away from zero, then clamped to [-80.00, 120.00].
IsClampedRounding(r, num, den) ==
    \/ r = 12000 /\ 2 * num >= 23999 * den
    \/ r = -8000 /\ 2 * num <= -15999 * den
    \/ /\ -8000 < r /\ r < 12000
       /\ 2 * Abs(r * den - num) <= den
       /\ 2 * Abs(r * den - num) = den => Abs(r) * den > Abs(num)

\* s (milli-percent) is the payload number raw (milli-percent) clamped to
\* [-80, 120] and rounded to 2 decimals.
IsSanitizedRaw(s, raw) == s % 10 = 0 /\ IsClampedRounding(s \div 10, raw, 10)

IsPresent(v) == v.t = "number"

\* m is the middle one of a, b, c.
IsMedian(m, a, b, c) ==
    /\ m \in {a, b, c}
    /\ Cardinality({i \in 1..3 : <<a, b, c>>[i] <= m}) >= 2
    /\ Cardinality({i \in 1..3 : <<a, b, c>>[i] >= m}) >= 2

NoHistory ==
    /\ ~IsPresent(RawPayload.threeYearCagrPct)
    /\ ~IsPresent(RawPayload.fiveYearCagrPct)
    /\ ~IsPresent(RawPayload.sinceInceptionCagrPct)
    /\ ~IsPresent(RawPayload.oneYearReturnPct)

(***************************************************************************)
(* C1.  Every assumption fetchAssumptionsWithSearch returns has            *)
(* conservative <= expected <= aggressive, also when the payload had       *)
(* aggressive < conservative and when blending moved the expected rate     *)
(* outside the interval of the other two.                                  *)
(***************************************************************************)
C1_Ordering ==
    Returned =>
        /\ fresult.conservativeAnnualReturnPct <= fresult.expectedAnnualReturnPct
        /\ fresult.expectedAnnualReturnPct <= fresult.aggressiveAnnualReturnPct

\* Returned from a payload with aggressive < conservative whose blended
\* expected rate lies above both.
C1_Witness ==
    /\ Returned
    /\ RawAggressive < RawConservative
    /\ flocals.aggressive < flocals.conservative
    /\ ~flocals.historyAnchor.isNull
    /\ flocals.expected > flocals.conservative
    /\ fresult.aggressiveAnnualReturnPct = flocals.expected

(***************************************************************************)
(* C2 (as amended).  Each of the three returned rates lies in [-80, 120].  *)
(* A raw conservative or aggressive rate of 500, or a raw expected rate of *)
(* 500 when there is no history anchor, is returned as 120 (the highest    *)
(* rate), and -999 likewise as -80 (the lowest rate).  With an anchor the  *)
(* raw expected rate enters the blend clamped, and the blend is returned.  *)
(***************************************************************************)
C2_Range ==
    Returned =>
        /\ \A i \in 1..3 : -80000 <= ReturnedRates[i] /\ ReturnedRates[i] <= 120000
        /\ ( \/ RawConservative = 500000
             \/ RawAggressive = 500000
             \/ RawExpected = 500000 /\ NoHistory )
           => fresult.aggressiveAnnualReturnPct = 120000
        /\ ( \/ RawConservative = -999000
             \/ RawAggressive = -999000
             \/ RawExpected = -999000 /\ NoHistory )
           => fresult.conservativeAnnualReturnPct = -80000

C2_Witness ==
    /\ Returned
    /\ RawConservative = 500000
    /\ RawAggressive = -999000
    /\ fresult.aggressiveAnnualReturnPct = 120000
    /\ fresult.conservativeAnnualReturnPct = -80000

\* C2 as stated: whichever of the three raw rates is 500 (or -999), 120
\* (or -80) is among the returned rates.
C2_Original ==
    Returned =>
        /\ \A i \in 1..3 : -80000 <= ReturnedRates[i] /\ ReturnedRates[i] <= 120000
        /\ 500000 \in {RawConservative, RawExpected, RawAggressive}
           => \E i \in 1..3 : ReturnedRates[i] = 120000
        /\ -999000 \in {RawConservative, RawExpected, RawAggressive}
           => \E i \in 1..3 : ReturnedRates[i] = -80000

(***************************************************************************)
(* C3.  With a history anchor, the expected rate that enters the sort is   *)
(* sanitize(0.55 * sanitize(payload expected) + 0.45 * anchor); for model  *)
(* expected 10 with 3-year CAGR 8 and 5-year CAGR 6 it is 8.65.            *)
(***************************************************************************)
C3_Blend ==
    (Returned /\ ~flocals.historyAnchor.isNull) =>
        LET a == flocals.historyAnchor
        IN  /\ IsSanitizedRaw(flocals.expectedRaw, RawExpected)
            /\ flocals.expected % 10 = 0
            /\ IsClampedRounding(flocals.expected \div 10,
                                 550 * flocals.expectedRaw * a.d + 45 * a.n,
                                 10000 * a.d)
            /\ \E perm \in {<<1, 2, 3>>, <<1, 3, 2>>, <<2, 1, 3>>,
                            <<2, 3, 1>>, <<3, 1, 2>>, <<3, 2, 1>>} :
                 /\ ReturnedRates[perm[1]] = flocals.conservative
                 /\ ReturnedRates[perm[2]] = flocals.expected
                 /\ ReturnedRates[perm[3]] = flocals.aggressive
            /\ ( /\ RawExpected = 10000
                 /\ RawPayload.threeYearCagrPct = Num(8000)
                 /\ RawPayload.fiveYearCagrPct = Num(6000)
                 /\ ~IsPresent(RawPayload.sinceInceptionCagrPct)
                 /\ ~IsPresent(RawPayload.oneYearReturnPct) )
               => flocals.expected = 8650

C3_Witness ==
    /\ Returned
    /\ RawExpected = 10000
    /\ RawPayload.threeYearCagrPct = Num(8000)
    /\ RawPayload.fiveYearCagrPct = Num(6000)
    /\ ~IsPresent(RawPayload.sinceInceptionCagrPct)
    /\ ~IsPresent(RawPayload.oneYearReturnPct)
    /\ flocals.historyAnchor = [isNull |-> FALSE, n |-> 140000, d |-> 2]
    /\ flocals.expected = 8650

(***************************************************************************)
(* C4 (as amended).  With no historical signal, the expected rate that     *)
(* enters the sort is the sanitized model expected rate, unchanged; the    *)
(* expectedAnnualReturnPct returned is the middle one of the three         *)
(* sanitized rates, which is the sanitized model expected rate whenever    *)
(* sanitized conservative <= sanitized expected <= sanitized aggressive.   *)
(***************************************************************************)
C4_NoAnchor ==
    (Returned /\ NoHistory) =>
        /\ flocals.historyAnchor.isNull
        /\ IsSanitizedRaw(flocals.expected, RawExpected)
        /\ IsSanitizedRaw(flocals.conservative, RawConservative)
        /\ IsSanitizedRaw(flocals.aggressive, RawAggressive)
        /\ IsMedian(fresult.expectedAnnualReturnPct,
                    flocals.conservative, flocals.expected, flocals.aggressive)
        /\ ( flocals.conservative <= flocals.expected
             /\ flocals.expected <= flocals.aggressive )
           => fresult.expectedAnnualReturnPct = flocals.expected

\* No signal, rates in order, and a model expected rate that rounding changes.
C4_Witness ==
    /\ Returned
    /\ NoHistory
    /\ RawConservative = 5000 /\ RawExpected = 8126 /\ RawAggressive = 20000
    /\ fresult.expectedAnnualReturnPct = 8130

\* C4 as stated: for every conservative and aggressive rate of the payload.
C4_Original ==
    (Returned /\ NoHistory) =>
        IsSanitizedRaw(fresult.expectedAnnualReturnPct, RawExpected)

(***************************************************************************)
(* C5.  The history anchor is the mean of exactly the signals present      *)
(* among threeYearCagrPct, fiveYearCagrPct, sinceInceptionCagrPct and      *)
(* 0.6 * oneYearReturnPct: absent and null ones are left out of sum and    *)
(* count, a 0 is counted, ytdReturnPct plays no part, and there is no      *)
(* anchor (and no blending) exactly when none of the four is present.      *)
(***************************************************************************)
C5_Anchor ==
    Returned =>
        LET three == RawPayload.threeYearCagrPct
            five  == RawPayload.fiveYearCagrPct
            since == RawPayload.sinceInceptionCagrPct
            one   == RawPayload.oneYearReturnPct
            count == (IF IsPresent(three) THEN 1 ELSE 0)
                     + (IF IsPresent(five) THEN 1 ELSE 0)
                     + (IF IsPresent(since) THEN 1 ELSE 0)
                     + (IF IsPresent(one) THEN 1 ELSE 0)
            \* in 1/10000 %
            sum   == (IF IsPresent(three) THEN 10 * three.n ELSE 0)
                     + (IF IsPresent(five) THEN 10 * five.n ELSE 0)
                     + (IF IsPresent(since) THEN 10 * since.n ELSE 0)
                     + (IF IsPresent(one) THEN 6 * one.n ELSE 0)
        IN  /\ flocals.historyAnchor.isNull <=> count = 0
            /\ count > 0 => /\ flocals.historyAnchor.n = sum
                            /\ flocals.historyAnchor.d = count
            /\ count = 0 => flocals.expected = flocals.expectedRaw

\* A 0 that counts, an absent and a null signal that do not, a one-year
\* return, and a year-to-date return that plays no part: (0 + 0.6 * 5) / 2.
C5_Witness ==
    /\ Returned
    /\ RawPayload.threeYearCagrPct = Num(0)
    /\ RawPayload.fiveYearCagrPct = Undefined
    /\ RawPayload.sinceInceptionCagrPct = JNull
    /\ RawPayload.oneYearReturnPct = Num(5000)
    /\ RawPayload.ytdReturnPct = Num(9000)
    /\ flocals.historyAnchor = [isNull |-> FALSE, n |-> 30000, d |-> 2]

(***************************************************************************)
(* C6.  A response that is not JSON, or is JSON that fails structural      *)
(* validation (a rate missing or not a number, confidence outside          *)
(* low/medium/high, rationale missing or not a string, a historical field  *)
(* of the wrong type), yields no assumption at all, and the call fails     *)
(* with an error whose message contains the investment's name.             *)
(***************************************************************************)
Received == ftext.body.kind # "none"

\* The payload is structurally invalid, stated field by field.
StructurallyInvalid(p) ==
    \/ \E rate \in { p.expectedAnnualReturnPct, p.conservativeAnnualReturnPct,
                     p.aggressiveAnnualReturnPct } : rate.t # "number"
    \/ ~(p.confidence.t = "string" /\ p.confidence.s \in {"low", "medium", "high"})
    \/ p.rationale.t # "string"
    \/ \E hist \in { p.ytdReturnPct, p.oneYearReturnPct, p.threeYearCagrPct,
                     p.fiveYearCagrPct, p.sinceInceptionCagrPct } :
          hist.t \notin {"number", "null", "undefined"}
    \/ p.historyAsOf.t \notin {"string", "null", "undefined"}

MessageContains(error, part) ==
    \E i \in 1..Len(error.message) : error.message[i] = part

C6_Rejects ==
    (Received /\ (ftext.body.kind = "garbage" \/ StructurallyInvalid(RawPayload))) =>
        /\ fpc = "threw"
        /\ fresult = NoAssumption
        /\ ~flocals.set
        /\ finv.name # ""
        /\ MessageContains(ferror, finv.name)

\* A payload that is complete but for its confidence label, rejected.
C6_Witness ==
    /\ fpc = "threw"
    /\ ftext.body.kind = "json"
    /\ JsonParses(ftext)
    /\ RawPayload.confidence = Str("certain")
    /\ RawPayload.expectedAnnualReturnPct = Num(10000)
    /\ fresult = NoAssumption
    /\ MessageContains(ferror, "Axis Bluechip Fund")

(***************************************************************************)
(* C7.  No source whose URL is on the provider's search-redirect domain,   *)
(* or whose path contains a redirect marker, appears in the sources of a   *)
(* returned assumption.                                                    *)
(***************************************************************************)
IsRedirectUrl(u) ==
    u \in { "https://vertexaisearch.cloud.google.com/grounding-api-redirect/AbC",
            "https://news.example.org/redirect/article" }

C7_NoRedirectSources ==
    Returned =>
        \A i \in 1..Len(fresult.sources) : ~IsRedirectUrl(fresult.sources[i].uri.s)

(***************************************************************************)
(* C8.  The sources of a returned assumption hold no two entries with the  *)
(* same URL (compared without the fragment), at most 5 entries, in order   *)
(* of first appearance in the payload.                                     *)
(***************************************************************************)
StripFragment(u) ==
    IF u = "https://example.com/fund#returns" THEN "https://example.com/fund" ELSE u

\* out is a subsequence of src: some increasing choice of positions of src
\* gives out.
IsSubsequence(out, src) ==
    \E pos \in [1..Len(out) -> 1..Len(src)] :
        /\ \A i \in 1..Len(out) : out[i] = src[pos[i]]
        /\ \A i \in 1..Len(out) - 1 : pos[i] < pos[i + 1]

C8_SourcesDedupCapped ==
    Returned =>
        /\ Len(fresult.sources) <= 5
        /\ \A i, j \in 1..Len(fresult.sources) :
              i # j => StripFragment(fresult.sources[i].uri.s)
                       # StripFragment(fresult.sources[j].uri.s)
        /\ IsSubsequence(fresult.sources, SchemaParse(RawPayload).sources.items)

(***************************************************************************)
(* C9.  projectScenario starts from initialAmount plus contributionAmount  *)
(* when the frequency is one_time and from initialAmount otherwise, and    *)
(* adds 12 * contributionAmount a year for monthly, contributionAmount for *)
(* yearly and 0 for one_time: a one_time contribution is counted once, in  *)
(* the starting balance.  1000 with a one-time 500 at 10 % gives 1650.00   *)
(* then 1815.00; 0 with 100 a month at 0 % gives 1200.00, 2400.00,         *)
(* 3600.00.                                                                *)
(***************************************************************************)
ProjectReturned == ppc = "returned"

StatedStart(investment) ==
    investment.initialAmount
    + (IF investment.contributionFrequency = "one_time"
       THEN investment.contributionAmount ELSE 0)

StatedAnnual(investment) ==
    IF investment.contributionFrequency = "monthly"
    THEN 12 * investment.contributionAmount
    ELSE IF investment.contributionFrequency = "yearly"
    THEN investment.contributionAmount
    ELSE 0

C9_Contribution ==
    ProjectReturned =>
        LET inv    == pinput.investment
            start  == StatedStart(inv)
            annual == StatedAnnual(inv)
            factor == Frac(100000 + pinput.annualReturnPct, 100000)
        IN  /\ Len(pvalues) = pinput.years
            /\ pvalues[1] =
                 ToFixed2(FAdd(FMul(Frac(start, 1), factor), Frac(annual, 1)))
            /\ pinput.annualReturnPct = 0 =>
                 \A n \in 1..pinput.years : pvalues[n] = start + n * annual
            /\ (inv.contributionFrequency = "one_time" /\ pinput.annualReturnPct = 0) =>
                 \A n \in 1..pinput.years :
                    pvalues[n] = inv.initialAmount + inv.contributionAmount
            /\ pinput = ProjectionInput("one_time", 50000, 100000, 10000, 2) =>
                 pvalues = <<165000, 181500>>
            /\ pinput = ProjectionInput("monthly", 10000, 0, 0, 3) =>
                 pvalues = <<120000, 240000, 360000>>

C9_Witness ==
    /\ ProjectReturned
    /\ pinput = ProjectionInput("one_time", 50000, 100000, 10000, 2)
    /\ pvalues = <<165000, 181500>>

(***************************************************************************)
(* C10 (as amended).  For every year N >= 2 the value recorded equals      *)
(* round2(b(N-1) * (1 + rate/100) + annual contribution), where b(N-1) is  *)
(* the running balance of year N-1 before rounding,                        *)
(*   b(k) = start * (1 + rate/100)^k + annual * sum of (1 + rate/100)^i    *)
(*          for i < k,                                                     *)
(* of which the recorded value of year N-1 is the 2-decimal rounding: the  *)
(* recurrence is carried on the unrounded balance, and only the recorded   *)
(* values are rounded.                                                     *)
(***************************************************************************)
RECURSIVE FPow(_, _)
FPow(f, k) == IF k = 0 THEN Frac(1, 1) ELSE FMul(f, FPow(f, k - 1))

RECURSIVE PowerSum(_, _)
PowerSum(f, k) == IF k = 0 THEN Frac(0, 1) ELSE FAdd(FPow(f, k - 1), PowerSum(f, k - 1))

UnroundedBalance(input, k) ==
    LET factor == Frac(100000 + input.annualReturnPct, 100000)
    IN  FAdd(FMul(Frac(StatedStart(input.investment), 1), FPow(factor, k)),
             FMul(Frac(StatedAnnual(input.investment), 1), PowerSum(factor, k)))

\* round2(previous * (1 + rate/100) + annual contribution)
NextRecorded(input, previous) ==
    ToFixed2(FAdd(FMul(previous, Frac(100000 + input.annualReturnPct, 100000)),
                  Frac(StatedAnnual(input.investment), 1)))

BuildReturned == bpc = "returned"

Scenarios == {"conservativeValue", "expectedValue", "aggressiveValue"}

\* The sum, over the first k investments of the request, of the value
\* recorded for year i in the given scenario.
RECURSIVE RecordedSum(_, _, _)
RecordedSum(i, scenario, k) ==
    IF k = 0 THEN 0
    ELSE bforecast.projections[k].yearly[i][scenario] + RecordedSum(i, scenario, k - 1)

\* Some investment of the request has no assumption carrying its id.
HasUnmatchedInvestment ==
    \E k \in 1..Len(brequest.investments) :
        \A j \in 1..Len(bassumptions) :
            bassumptions[j].investmentId # brequest.investments[k].id

\* The assumptions list in every order.
PermutedAssumptions ==
    { [i \in 1..Len(bassumptions) |-> bassumptions[f[i]]] :
        f \in Permutations(1..Len(bassumptions)) }

SameProjections(perm) ==
    LET outcome == BuildForecast(brequest, perm, bforecast.generatedAt)
    IN  /\ ~outcome.threw
        /\ outcome.forecast.projections = bforecast.projections
        /\ outcome.forecast.totalProjection = bforecast.totalProjection

DistinctAssumptionIds ==
    \A i, j \in 1..Len(bassumptions) :
        bassumptions[i].investmentId = bassumptions[j].investmentId => i = j

\* j is the first assumption of the list that carries the id.
IsFirstWithId(j, id) ==
    /\ bassumptions[j].investmentId = id
    /\ \A h \in 1..(j - 1) : bassumptions[h].investmentId # id

(***************************************************************************)
(* C11.  For every year 1..horizon and every scenario, the totalProjection *)
(* value returned by buildForecast equals the 2-decimal rounding of the    *)
(* sum, over all investments of the request, of the value recorded for     *)
(* that investment, year and scenario; totalProjection has exactly horizon *)
(* rows numbered 1..horizon in order.  Year-1 expected values 1650.00 and  *)
(* 1200.00 give a total of 2850.00.                                        *)
(***************************************************************************)
C11_Totals ==
    BuildReturned =>
        /\ Len(bforecast.projections) = Len(brequest.investments)
        /\ Len(bforecast.totalProjection) = brequest.years
        /\ \A i \in 1..brequest.years :
              /\ bforecast.totalProjection[i].year = i
              /\ \A scenario \in Scenarios :
                    bforecast.totalProjection[i][scenario] =
                        ToFixed2(Frac(RecordedSum(i, scenario,
                                                  Len(brequest.investments)), 1))
        /\ ( /\ Len(brequest.investments) = 2
             /\ bforecast.projections[1].yearly[1].expectedValue = 165000
             /\ bforecast.projections[2].yearly[1].expectedValue = 120000 ) =>
               bforecast.totalProjection[1].expectedValue = 285000

C11_Witness ==
    /\ BuildReturned
    /\ brequest = ForecastRequest(2, "INR", <<AxisFund, NiftyEtf>>)
    /\ bforecast.projections[1].yearly[1].expectedValue = 165000
    /\ bforecast.projections[2].yearly[1].expectedValue = 120000
    /\ bforecast.totalProjection[1].expectedValue = 285000
    /\ bforecast.totalProjection[2].year = 2

(***************************************************************************)
(* C12.  If any investment of the request has no assumption with the same  *)
(* investmentId in the assumptions list, buildForecast throws an error and *)
(* returns no ForecastResponse: the investment is neither skipped nor      *)
(* given a zero-filled row.                                                *)
(***************************************************************************)
C12_MissingFails ==
    (bpc # "idle" /\ HasUnmatchedInvestment) =>
        /\ bpc = "threw"
        /\ bforecast = NoForecast
        /\ berror # NoBuildError

C12_Witness ==
    /\ bpc = "threw"
    /\ brequest.investments = <<AxisFund, NiftyEtf>>
    /\ Len(bassumptions) = 1
    /\ bassumptions[1].investmentId = "inv-1"
    /\ berror = [message |-> <<"Missing assumption for investment: ", "inv-2">>]

IsFence(tok) == IsJsonFence(tok) \/ tok = "FENCE"

\* toks is one fence with white space around it, or with none.
IsFenceWithWhitespace(toks) ==
    /\ \E i \in 1..Len(toks) : IsFence(toks[i])
    /\ \A i, j \in 1..Len(toks) : (IsFence(toks[i]) /\ IsFence(toks[j])) => i = j
    /\ \A i \in 1..Len(toks) : IsFence(toks[i]) \/ IsWhitespace(toks[i])

\* The text is a valid payload between an opening fence (with or without a
\* language tag) and a closing fence.
IsFencedValidPayload(text) ==
    /\ text.body.kind = "json"
    /\ SchemaAccepts(text.body.value)
    /\ IsFenceWithWhitespace(text.pre)
    /\ IsFenceWithWhitespace(text.post)
    /\ text.post[Len(text.post)] = "FENCE" \/ IsWhitespace(text.post[Len(text.post)])

\* What the call returns for the payload alone, without any wrapping.
UnwrappedResult(text) ==
    Assumption(finv, SchemaParse(text.body.value),
               Locals(SchemaParse(text.body.value)))

CarriedFields ==
    { "ytdReturnPct", "oneYearReturnPct", "threeYearCagrPct", "fiveYearCagrPct",
      "sinceInceptionCagrPct", "historyAsOf" }

(***************************************************************************)
(* C17.  When the response text is a valid payload wrapped in fenced code  *)
(* block markers (an opening fence with or without a language tag, a       *)
(* closing fence, with or without surrounding white space or a trailing    *)
(* newline), the wrapping is stripped and the payload is parsed exactly as *)
(* the unwrapped payload would be.                                         *)
(***************************************************************************)
C17_FencesStripped ==
    (Received /\ IsFencedValidPayload(ftext)) =>
        /\ Returned
        /\ fresult = UnwrappedResult(ftext)

(***************************************************************************)
(* C18.  The assumption returned carries the investmentId of the           *)
(* investment the call was made with, and carries confidence, rationale,   *)
(* ytdReturnPct, oneYearReturnPct, threeYearCagrPct, fiveYearCagrPct,      *)
(* sinceInceptionCagrPct and historyAsOf unchanged from the payload, with  *)
(* null where the payload field is absent or null.                         *)
(***************************************************************************)
C18_CarriedUnchanged ==
    Returned =>
        /\ fresult.investmentId = finv.id
        /\ finv \in FetchInvestments
        /\ fresult.confidence = RawPayload.confidence.s
        /\ fresult.rationale = RawPayload.rationale.s
        /\ \A field \in CarriedFields :
              fresult[field] =
                  IF RawPayload[field].t \in {"undefined", "null"}
                  THEN JNull ELSE RawPayload[field]

\* A blended and sorted result whose history fields are absent, null and
\* present.
C18_Witness ==
    /\ Returned
    /\ fresult.investmentId = "inv-2"
    /\ RawPayload.ytdReturnPct = Undefined /\ fresult.ytdReturnPct = JNull
    /\ RawPayload.historyAsOf = Undefined /\ fresult.historyAsOf = JNull
    /\ RawPayload.oneYearReturnPct = JNull /\ fresult.oneYearReturnPct = JNull
    /\ fresult.threeYearCagrPct = Num(12000)
    /\ fresult.confidence = "high"
    /\ RawExpected = 10000
    /\ fresult.expectedAnnualReturnPct = 10900


(***************************************************************************)
(* Vocabulary of the properties of the portfolio document                  *)
(***************************************************************************)
SettingsOf(doc) == <<doc.currency, doc.years, doc.investments>>

ForecastFieldsOf(doc) == <<doc.lastForecast, doc.lastForecastRunId, doc.lastForecastAt>>

\* The positions, in the committed writes, of the calls of op for uid.
WritesOf(op, uid) ==
    { i \in 1..Len(writes) : writes[i].op = op /\ writes[i].uid = uid }

Last(positions) == CHOOSE i \in positions : \A j \in positions : j <= i

\* The step is the commit of a savePortfolio for uid.
IsSavePortfolioStep(uid) ==
    /\ Len(writes') = Len(writes) + 1
    /\ writes'[Len(writes')].op = "savePortfolio"
    /\ writes'[Len(writes')].uid = uid

\* The step is the commit of an updatePortfolioForecast for uid.
IsUpdateForecastStep(uid) ==
    /\ Len(writes') = Len(writes) + 1
    /\ writes'[Len(writes')].op = "updatePortfolioForecast"
    /\ writes'[Len(writes')].uid = uid

(***************************************************************************)
(* C20.  For one user's portfolio document, savePortfolio changes only     *)
(* currency, years, investments and updatedAt and leaves lastForecast,     *)
(* lastForecastRunId and lastForecastAt unchanged; updatePortfolioForecast *)
(* changes only the three forecast fields and updatedAt and leaves         *)
(* currency, years and investments unchanged.                              *)
(***************************************************************************)
C20_FrameOfWrites ==
    [][ \A uid \in Uids :
          /\ IsSavePortfolioStep(uid) =>
                /\ ForecastFieldsOf(portfolios'[uid]) = ForecastFieldsOf(portfolios[uid])
                /\ SettingsOf(portfolios'[uid]) =
                      << Present(writes'[Len(writes')].portfolio.currency),
                         Present(writes'[Len(writes')].portfolio.years),
                         Present(writes'[Len(writes')].portfolio.investments) >>
                /\ \A other \in Uids \ {uid} : portfolios'[other] = portfolios[other]
          /\ IsUpdateForecastStep(uid) =>
                /\ SettingsOf(portfolios'[uid]) = SettingsOf(portfolios[uid])
                /\ ForecastFieldsOf(portfolios'[uid]) =
                      << Present(writes'[Len(writes')].forecast),
                         Present(writes'[Len(writes')].runId),
                         Present(writes'[Len(writes')].forecast.generatedAt) >>
                /\ \A other \in Uids \ {uid} : portfolios'[other] = portfolios[other]
      ]_vars

(***************************************************************************)
(* C20, the consequence.  After any interleaving of the two functions, the *)
(* document of a user holds the settings of the last savePortfolio and the *)
(* forecast of the last updatePortfolioForecast made for that user.        *)
(***************************************************************************)
C20_HoldsLastOfEach ==
    \A uid \in Uids :
        /\ WritesOf("savePortfolio", uid) # {} =>
              LET w == writes[Last(WritesOf("savePortfolio", uid))]
              IN  SettingsOf(portfolios[uid]) =
                      << Present(w.portfolio.currency), Present(w.portfolio.years),
                         Present(w.portfolio.investments) >>
        /\ WritesOf("savePortfolio", uid) = {} =>
              SettingsOf(portfolios[uid]) = <<Absent, Absent, Absent>>
        /\ WritesOf("updatePortfolioForecast", uid) # {} =>
              LET w == writes[Last(WritesOf("updatePortfolioForecast", uid))]
              IN  ForecastFieldsOf(portfolios[uid]) =
                      << Present(w.forecast), Present(w.runId),
                         Present(w.forecast.generatedAt) >>
        /\ WritesOf("updatePortfolioForecast", uid) = {} =>
              ForecastFieldsOf(portfolios[uid]) = <<Absent, Absent, Absent>>

(***************************************************************************)
(* C20, both parts: the frame of each write and what the document holds    *)
(* after any interleaving.                                                 *)
(***************************************************************************)
C20_FrameAndLast == C20_FrameOfWrites /\ []C20_HoldsLastOfEach

\* A forecast was cached, the settings were saved after it, and a newer
\* forecast was cached after that.
C20_Witness ==
    /\ Len(writes) = 4
    /\ writes[1].op = "updatePortfolioForecast" /\ writes[1].uid = "alice"
    /\ writes[2].op = "savePortfolio" /\ writes[2].uid = "alice"
    /\ writes[3].op = "savePortfolio" /\ writes[3].uid = "alice"
    /\ writes[4].op = "updatePortfolioForecast" /\ writes[4].uid = "alice"
    /\ writes[2].portfolio # writes[3].portfolio
    /\ writes[1].forecast # writes[4].forecast
    /\ portfolios["alice"].currency = Present(writes[3].portfolio.currency)
    /\ portfolios["alice"].lastForecastAt = Present(writes[4].forecast.generatedAt)
    /\ portfolios["alice"].updatedAt = Present(4)


(***************************************************************************)
(* Vocabulary of the properties of POST /api/forecast                      *)
(***************************************************************************)
Arrived(r) == rpc[r] # "idle"

Responded(r) == rpc[r] = "responded"

\* The response carries an error and no forecast.
IsErrorResponse(response) ==
    /\ response.status \in {400, 401}
    /\ response.error # <<>>
    /\ response.forecast = NoForecast
    /\ response.runId = ""

\* The number of requests the run has sent to the research provider.
RECURSIVE ProviderRequests(_, _)
ProviderRequests(calls, k) ==
    IF k = 0 THEN 0 ELSE calls[k].count + ProviderRequests(calls, k - 1)

\* The committed writes made by the run.
WritesBy(r) == { i \in 1..Len(writes) : writes[i].caller = r }

\* The run has called nothing: no research, no calculation, no write.
NothingDone(r) ==
    /\ rcalls[r] = <<>>
    /\ rbuilds[r] = <<>>
    /\ rforecast[r] = NoForecast
    /\ WritesBy(r) = {}

SomeCallFailed(r) == \E i \in 1..Len(rcalls[r]) : rcalls[r][i].state = "rejected"

\* The body as the requester sent it, judged by the rules of the request:
\* years an integer in 1..50, a non-empty currency, a non-empty list of
\* investments, names of 2 characters or more, no negative amount.
YearsInRange(years) ==
    years.t = "number" /\ years.d = 1 /\ years.n \in 1..50

StructurallyValid(body) ==
    /\ body.json
    /\ YearsInRange(body.years)
    /\ body.currency.t = "string" /\ body.currency.s # ""
    /\ body.investments.t = "array" /\ body.investments.items # <<>>
    /\ \A i \in 1..Len(body.investments.items) :
          LET inv == body.investments.items[i]
          IN  /\ inv.name \notin {"", "A"}
              /\ inv.id # ""
              /\ inv.type \in INVESTMENT_TYPES
              /\ inv.contributionFrequency \in CONTRIBUTION_FREQUENCIES
              /\ inv.contributionAmount >= 0 /\ inv.initialAmount >= 0

AllAmountsZero(body) ==
    /\ body.investments.t = "array"
    /\ \A i \in 1..Len(body.investments.items) :
          /\ body.investments.items[i].initialAmount = 0
          /\ body.investments.items[i].contributionAmount = 0

(***************************************************************************)
(* C13.  In a run over N investments, if the assumption request of at      *)
(* least one investment fails (transport failure, unparseable response or  *)
(* validation rejection), then, whichever request fails and in whatever    *)
(* order the requests complete, the response carries an error and no       *)
(* forecast: buildForecast is never run on the assumptions that succeeded, *)
(* and nothing is written.                                                 *)
(***************************************************************************)
C13_NoPartialForecast ==
    \A r \in Runs :
        SomeCallFailed(r) =>
            /\ rbuilds[r] = <<>>
            /\ rforecast[r] = NoForecast
            /\ WritesBy(r) = {}
            /\ Responded(r)
            /\ IsErrorResponse(rresponse[r])

\* Three investments: the first two calls returned, the third failed last.
C13_Witness ==
    /\ Len(rcalls["run-a"]) = 3
    /\ rcalls["run-a"][1].state = "resolved"
    /\ rcalls["run-a"][2].state = "resolved"
    /\ rcalls["run-a"][3].state = "rejected"
    /\ rcalls["run-a"][3].error =
          InvalidPayloadError(SmallDeposit, "ZodError")
    /\ rresponse["run-a"].status = 400
    /\ rresponse["run-a"].error = InvalidPayloadError(SmallDeposit, "ZodError").message

(***************************************************************************)
(* C14.  A request that fails structural validation (years not an integer  *)
(* in 1..50, empty currency, empty investment list, investment name        *)
(* shorter than 2 characters, negative amount) or in which every           *)
(* investment has initialAmount = 0 and contributionAmount = 0 is rejected *)
(* with an error before any call to the research provider and before       *)
(* anything is persisted; its values are never coerced into range.         *)
(***************************************************************************)
C14_RejectedBeforeAnyCall ==
    \A r \in Runs :
        ( /\ Arrived(r)
          /\ \/ ~StructurallyValid(rrequest[r].body)
             \/ AllAmountsZero(rrequest[r].body) ) =>
            /\ NothingDone(r)
            /\ rrunId[r] = ""
            /\ Responded(r) => IsErrorResponse(rresponse[r])
            /\ rpc[r] \in {"verifying", "responded"}

\* An authenticated request for 51 years has been answered with 400.
C14_Witness ==
    /\ Responded("run-a")
    /\ ruid["run-a"] = "alice"
    /\ rrequest["run-a"].body = [ThreeFunds EXCEPT !.years = YearsValue(51, 1)]
    /\ rresponse["run-a"].status = 400
    /\ rresponse["run-a"].error = <<"ZodError">>
    /\ NothingDone("run-a")

(***************************************************************************)
(* C16.  In one run the research provider is called exactly once for each  *)
(* investment of the request, every time the run is executed (no           *)
(* assumption is reused from an earlier run), and a failed call is never   *)
(* retried within the run.                                                 *)
(***************************************************************************)
C16_OncePerInvestment ==
    \A r \in Runs :
        /\ rcalls[r] # <<>> =>
              /\ Len(rcalls[r]) = Len(rrequest[r].body.investments.items)
              /\ \A i \in 1..Len(rcalls[r]) : rcalls[r][i].count = 1
              /\ ProviderRequests(rcalls[r], Len(rcalls[r])) =
                    Len(rrequest[r].body.investments.items)
        /\ rpc[r] \in {"researching", "saving", "caching"} => rcalls[r] # <<>>
        /\ rbuilds[r] # <<>> =>
              \A i \in 1..Len(rcalls[r]) :
                  /\ rcalls[r][i].state = "resolved"
                  /\ rbuilds[r][1][i] = rcalls[r][i].assumption

\* The second run of a user whose first run succeeded with the same two
\* investments has asked the provider again, and one of its calls failed.
C16_Witness ==
    /\ rresponse["run-a"].status = 200
    /\ ruid["run-a"] = "alice"
    /\ rrequest["run-a"].body = rrequest["run-b"].body
    /\ Len(rcalls["run-b"]) = 2
    /\ rcalls["run-b"][1].state = "rejected"
    /\ rcalls["run-b"][1].count = 1
    /\ rcalls["run-b"][2].state = "resolved"
    /\ rcalls["run-b"][2].count = 1
    /\ Responded("run-b")

(***************************************************************************)
(* C19.  A request whose Authorization header is missing or does not start *)
(* with "Bearer " is answered with status 401, and no research call, no    *)
(* calculation and no persistence write happens for it; the uid used for   *)
(* every write of a run is the one yielded by credential verification.     *)
(***************************************************************************)
C19_BearerOrNothing ==
    /\ \A r \in Runs :
          /\ ( /\ Arrived(r)
               /\ \/ rrequest[r].header.t = "null"
                  \/ rrequest[r].header.scheme # "Bearer " ) =>
                /\ Responded(r)
                /\ rresponse[r].status = 401
                /\ IsErrorResponse(rresponse[r])
                /\ ruid[r] = ""
                /\ NothingDone(r)
          /\ \A i \in WritesBy(r) :
                /\ rrequest[r].header.rest \in ValidTokens
                /\ writes[i].uid = DecodedUid(rrequest[r].header.rest)
                /\ writes[i].uid = ruid[r]
    /\ \A uid \in Uids :
          (forecasts[uid].exists \/ portfolios[uid].exists) =>
              \E r \in Runs : ruid[r] = uid /\ WritesBy(r) # {}

\* A request with the scheme in lower case was answered 401 and did
\* nothing; the next request, with alice's token, wrote both documents
\* under alice.
C19_Witness ==
    /\ rrequest["run-a"].header = Header("bearer ", "token-alice")
    /\ rresponse["run-a"].status = 401
    /\ rresponse["run-a"].error = <<"Unauthorized: missing token">>
    /\ NothingDone("run-a")
    /\ rresponse["run-b"].status = 200
    /\ WritesBy("run-b") = {1, 2}
    /\ writes[1].uid = "alice" /\ writes[2].uid = "alice"
    /\ forecasts["alice"].exists /\ portfolios["alice"].exists
    /\ ~forecasts["bob"].exists /\ ~portfolios["bob"].exists

(***************************************************************************)
(* Vocabulary of the properties of the stored forecast runs                *)
(***************************************************************************)
\* The committed saveForecastRun writes of the user, by position.
SavedRuns(uid) ==
    { i \in 1..Len(writes) :
        writes[i].op = "saveForecastRun" /\ writes[i].uid = uid }

\* The ids of the wealthForecasts documents that belong to the user.
ForecastDocsOf(uid) ==
    { id \in ForecastDocIds :
        forecasts[id].exists /\ forecasts[id].uid = Present(uid) }

\* The request the run validated.
InputOf(r) == RequestSchemaParse(rrequest[r].body)

Succeeded(r) == Responded(r) /\ rresponse[r].status = 200

(***************************************************************************)
(* C21.  After any sequence of successful forecast runs of one user, the   *)
(* wealthForecasts collection holds exactly one document for that user,    *)
(* keyed by the uid, whose input and output are those of the run that      *)
(* wrote last; saveForecastRun returns the uid as run id.                  *)
(***************************************************************************)
C21_OneDocPerUser ==
    /\ \A uid \in Uids :
          IF SavedRuns(uid) = {}
          THEN ForecastDocsOf(uid) = {}
          ELSE LET last == writes[Last(SavedRuns(uid))].caller
               IN  /\ ForecastDocsOf(uid) = {uid}
                   /\ forecasts[uid].input = Present(InputOf(last))
                   /\ forecasts[uid].output = Present(rforecast[last])
    /\ \A id \in ForecastDocIds : forecasts[id].exists => id \in Uids
    /\ \A r \in Runs :
          /\ rrunId[r] # "" => rrunId[r] = ruid[r] /\ WritesBy(r) # {}
          /\ Succeeded(r) => rresponse[r].runId = ruid[r]

\* Two runs of alice succeeded one after the other with different requests
\* and different forecasts; the one document holds those of the second.
C21_Witness ==
    /\ Succeeded("run-a") /\ Succeeded("run-b")
    /\ ruid["run-a"] = "alice" /\ ruid["run-b"] = "alice"
    /\ InputOf("run-a") # InputOf("run-b")
    /\ rforecast["run-a"] # rforecast["run-b"]
    /\ SavedRuns("alice") = {1, 3}
    /\ ForecastDocsOf("alice") = {"alice"}
    /\ forecasts["alice"].input = Present(InputOf("run-b"))
    /\ forecasts["alice"].output = Present(rforecast["run-b"])
    /\ rresponse["run-a"].runId = "alice" /\ rresponse["run-b"].runId = "alice"

(***************************************************************************)
(* Vocabulary of the order of the scenarios                                *)
(***************************************************************************)
\* conservative <= expected <= aggressive, all within [-80, 120] percent.
RatesClassical(assumption) ==
    /\ -80000 <= assumption.conservativeAnnualReturnPct
    /\ assumption.conservativeAnnualReturnPct <= assumption.expectedAnnualReturnPct
    /\ assumption.expectedAnnualReturnPct <= assumption.aggressiveAnnualReturnPct
    /\ assumption.aggressiveAnnualReturnPct <= 120000

RowOrdered(row) ==
    /\ 0 <= row.conservativeValue
    /\ row.conservativeValue <= row.expectedValue
    /\ row.expectedValue <= row.aggressiveValue

\* Every row of the forecast, per investment and in the totals.
RowsOf(forecast) ==
    { forecast.totalProjection[i] : i \in 1..Len(forecast.totalProjection) }
    \cup UNION { { forecast.projections[k].yearly[i] :
                     i \in 1..Len(forecast.projections[k].yearly) } :
                 k \in 1..Len(forecast.projections) }

AmountsNonNegative(request) ==
    \A k \in 1..Len(request.investments) :
        /\ request.investments[k].initialAmount >= 0
        /\ request.investments[k].contributionAmount >= 0

(***************************************************************************)
(* C25.  For investments with initialAmount >= 0 and contributionAmount    *)
(* >= 0 and assumptions with conservative <= expected <= aggressive rates  *)
(* in [-80, 120], every yearly row buildForecast returns, per investment   *)
(* and in totalProjection, satisfies 0 <= conservativeValue <=             *)
(* expectedValue <= aggressiveValue.                                       *)
(***************************************************************************)
C25_ScenarioOrder ==
    ( /\ BuildReturned
      /\ AmountsNonNegative(brequest)
      /\ \A j \in 1..Len(bassumptions) : RatesClassical(bassumptions[j]) ) =>
        \A row \in RowsOf(bforecast) : RowOrdered(row)

\* Two investments over two years, one of them at -80 / 0 / 120 percent:
\* the second total row is strictly ordered and every row is in order.
C25_Witness ==
    /\ BuildReturned
    /\ brequest.years = 2
    /\ brequest.investments = <<AxisFund, NiftyEtf>>
    /\ bassumptions = << AssumptionOf("inv-1", <<-80000, 0, 120000>>),
                         AssumptionOf("inv-2", <<5000, 10000, 50000>>) >>
    /\ bforecast.projections[1].yearly[2].conservativeValue = 6000
    /\ bforecast.projections[1].yearly[2].expectedValue = 150000
    /\ bforecast.projections[1].yearly[2].aggressiveValue = 726000
    /\ bforecast.totalProjection[2].conservativeValue
         < bforecast.totalProjection[2].expectedValue
    /\ bforecast.totalProjection[2].expectedValue
         < bforecast.totalProjection[2].aggressiveValue
    /\ \A row \in RowsOf(bforecast) : RowOrdered(row)

(***************************************************************************)
(* C26.  In a POST /api/forecast run, every investment's projection is     *)
(* computed with the assumption that was researched for that same          *)
(* investment (its own name, type, ticker and source URL), also when two   *)
(* investments of the request carry the same id; no investment is          *)
(* projected with another investment's rates.                              *)
(***************************************************************************)
C26_OwnAssumption ==
    \A r \in Runs :
        rforecast[r] # NoForecast =>
            \A k \in 1..Len(InputOf(r).investments) :
                LET investment == InputOf(r).investments[k]
                    own        == rcalls[r][k].assumption
                IN  /\ own.investmentId = investment.id
                    /\ rforecast[r].projections[k].investmentName = investment.name
                    /\ rforecast[r].projections[k].yearly =
                         YearlyRows(investment, own, InputOf(r).years)

(***************************************************************************)
(* C28.  A POST /api/forecast run that answers with an error has written   *)
(* nothing: both wealthForecasts/{uid} and the forecast fields of          *)
(* portfolios/{uid} are the same as before the run, whichever step of the  *)
(* run failed (validation, research, calculation, saving the run, caching  *)
(* it on the portfolio).  Every committed write changes its document, so   *)
(* the documents are as before the run exactly when the run has committed  *)
(* no write.                                                               *)
(***************************************************************************)
C28_ErrorWritesNothing ==
    \A r \in Runs :
        (Responded(r) /\ IsErrorResponse(rresponse[r])) =>
            WritesBy(r) = {}

(***************************************************************************)
(* C27.  For one user, once every run of any set of concurrently executing *)
(* POST /api/forecast requests has completed successfully, the forecast    *)
(* stored as output in wealthForecasts/{uid} and the forecast cached as    *)
(* lastForecast in portfolios/{uid} are the forecast of the same run (same *)
(* generatedAt); no interleaving of the two writes of different runs       *)
(* leaves them pointing at different runs.                                 *)
(***************************************************************************)
C27_SameRunInBothDocs ==
    ( /\ \E r \in Runs : Arrived(r)
      /\ \A r \in Runs : Arrived(r) => Succeeded(r) ) =>
        \A uid \in { ruid[r] : r \in { run \in Runs : Arrived(run) } } :
            /\ forecasts[uid].exists /\ portfolios[uid].exists
            /\ portfolios[uid].lastForecast = forecasts[uid].output
            /\ portfolios[uid].lastForecastAt =
                 Present(forecasts[uid].output[1].generatedAt)

(***************************************************************************)
(* Vocabulary of the properties of the planner                             *)
(***************************************************************************)
\* The local calendar day, in the zone of the browser (UTC+05:30), of each
\* instant the model uses.
CalendarDay(iso) ==
    CASE iso = "2026-11-01T09:00:00.000Z" -> "2026-11-01"
      [] iso = "2026-11-02T09:00:00.000Z" -> "2026-11-02"
      [] iso = "2026-10-31T20:00:00.000Z" -> "2026-11-01"
      [] iso = "2026-10-01T09:00:00.000Z" -> "2026-10-01"
      [] iso = "2025-11-01T09:00:00.000Z" -> "2025-11-01"

\* The last handler was the end of a portfolio load.
Loaded == event.kind = "load"

\* The load brought a forecast of another day and a non-empty list.
RegenDue ==
    /\ event.ok
    /\ event.lastForecastAt # Absent
    /\ CalendarDay(event.lastForecastAt[1]) # CalendarDay(event.now)
    /\ event.investments # <<>>

CallEnded == event.kind = "generated"

\* The last handler called generateForecast, and the local checks rejected
\* the call.
CallRejected == event.calls # <<>> /\ event.calls[Len(event.calls)] = "rejected"

CallSent == event.calls # <<>> /\ event.calls[Len(event.calls)] = "sent"

\* The two outcomes of a call.
ShowsForecast ==
    /\ planner.forecast = Present(event.forecast)
    /\ planner.runId = Present(event.runId)
    /\ planner.forecastGeneratedAt = Present(event.forecast.generatedAt)
    /\ planner.error = Absent

ShowsError ==
    /\ planner.forecast = Absent
    /\ planner.runId = Absent
    /\ planner.error # Absent

(***************************************************************************)
(* C22.  Every call of the planner store's generateForecast ends with      *)
(* isGenerating = false and with exactly one of two outcomes: forecast and *)
(* runId set from the response and error null, or forecast null, runId     *)
(* null and error non-null; the previously shown forecast is cleared at    *)
(* the start of the call and is not restored when the run fails, and a     *)
(* call rejected by the local checks (no named investment, all amounts     *)
(* zero) never sets isGenerating and sends no request.                     *)
(***************************************************************************)
C22_CallOutcome ==
    /\ [] ( /\ CallEnded =>
                /\ ~planner.isGenerating
                /\ IF event.ok THEN ShowsForecast ELSE ShowsError
            /\ CallSent =>
                /\ planner.isGenerating
                /\ planner.forecast = Absent /\ planner.runId = Absent
                /\ planner.error = Absent
            /\ CallRejected => ShowsError )
    /\ [][ (event'.calls # <<>> /\ event'.calls[Len(event'.calls)] = "rejected") =>
              /\ posts' = posts
              /\ planner'.isGenerating = planner.isGenerating ]_vars

\* The portfolio of the signed-in user has not finished loading: the store
\* says so, or a request for it is still outstanding.
StillLoading ==
    \/ planner.isLoadingPortfolio
    \/ ~planner.hasLoadedRef
    \/ \E i \in 1..Len(loads) : loads[i].uid = user

(***************************************************************************)
(* C24.  The auto-save of the planner store is debounced: at most one save *)
(* timer is pending at any time, a change of currency, years or            *)
(* investments cancels the pending timer and starts a new one of 350 ms,   *)
(* so the PUT that is sent carries the state as of the last change; no PUT *)
(* is scheduled while the portfolio has not finished loading, and none is  *)
(* sent when no id token is available.                                     *)
(***************************************************************************)
C24_DebouncedSave ==
    /\ Len(timers) <= 1
    /\ \A k \in 1..Len(timers) :
          /\ timers[k].delay = 350
          /\ timers[k].body = SettingsIn(planner)
    /\ (event.kind = "save" /\ event.sent) =>
          /\ event.body = SettingsIn(planner)
          /\ user # ""
    /\ \A i \in 1..Len(puts) : puts[i].uid \in Uids
    /\ timers # <<>> => ~StillLoading

(***************************************************************************)
(* C29.  The auto-save of the planner store only ever sends a portfolio    *)
(* that derives from a successful load of the stored portfolio of the      *)
(* signed-in user: when the load fails and the state stays at the          *)
(* defaults, a later edit does not send a PUT that replaces the stored     *)
(* investments with the state based on the defaults.                       *)
(***************************************************************************)
C29_SavesLoadedOnly ==
    \A i \in 1..Len(puts) : puts[i].settings = puts[i].uid

(***************************************************************************)
(* C30.  The currency, years, investments and forecast of the planner      *)
(* store always belong to the user who is signed in: a portfolio or        *)
(* forecast response requested for a previous user, or before sign-out,    *)
(* that arrives after the user changed is never applied to the state and   *)
(* is never saved under the token of the new user.                         *)
(***************************************************************************)
C30_StateOfCurrentUser ==
    /\ owner.settings \in {"", user}
    /\ owner.forecast \in {"", user}
    /\ \A i \in 1..Len(puts) : puts[i].settings \in {"", puts[i].uid}

=============================================================================
